---------------------------- MODULE Spec2Model ----------------------------
(***************************************************************************)
(* Model of sisl.physics.electron (src/sisl/physics/electron.py): the      *)
(* post-processing engines DOS, PDOS, velocity (orthogonal and             *)
(* non-orthogonal), the State/StateC velocity accessor and wavefunction;   *)
(* and of gotSileGULP.read_dynamical_matrix (src/sisl/io/gulp/got.py).     *)
(*                                                                         *)
(* Numbers.  Real quantities are integers; a complex number is a pair      *)
(* <<re, im>> of integers (a Gaussian integer), so every product, sum,     *)
(* conjugate and real part the code takes is computed exactly.  Arrays are *)
(* sequences, matrices are sequences of rows.  Python indexes from 0, the  *)
(* sequences here from 1: Python's a[i] is a[i + 1] below.                 *)
(*                                                                         *)
(* A call's result is a record [kind, val]: kind "ok" carries the returned *)
(* array in val, any other kind is the exception class that escapes.       *)
(***************************************************************************)
EXTENDS Integers, Sequences, FiniteSets, TLC

VARIABLES
    op,            \* the engine that is called
    pc,            \* "call" while the call is pending, then "done"
    ret,           \* the result of the call: [kind, val]
    E,             \* query energies
    eig,           \* eigenvalues (velocity: the state energies)
    distribution,  \* the distribution function D, by name
    eig_v,         \* eigenvector / state matrix, one row per state
    S,             \* the overlap argument: None or a matrix
    spin,          \* the spin argument: None or a spin kind
    ndim,          \* velocity: state.ndim, 1 or 2 (a 1-D state is the one row of eig_v)
    dHk,           \* velocity: the Hamiltonian derivative (rows stacked by axis)
    dSk,           \* velocity: the overlap derivative, or None
    degenerate,    \* velocity: the list of degenerate groups (None is the empty list)
    parent,        \* State.velocity: what the parent object exposes
    is_StateC,     \* State.velocity: whether the state is a StateC
    is_SparseOrbitalBZSpin, \* State.Sk: isinstance(parent, SparseOrbitalBZSpin)
    info,          \* State.Sk: the state's info (k and gauge, when stored)
    format,        \* State.Sk: the format argument
    v,             \* wavefunction: the coefficient array of the last call
    grid,          \* wavefunction: the grid (amplitudes, dtype, geometry)
    geometry,      \* wavefunction: the geometry argument, or None
    k,             \* wavefunction: the k-point argument, or None
    spinor,        \* wavefunction: the spinor component, 0 or 1
    grid0,         \* wavefunction: the amplitudes before the first call
    grid_pre,      \* wavefunction: the grid before the last call
    calls,         \* wavefunction: the calls made so far
    order,         \* read_dynamical_matrix: the order argument, if given
    file,          \* read_dynamical_matrix: what the output files hold
    tried,         \* read_dynamical_matrix: the readers called so far
    f_pos          \* read_dynamical_matrix: position of the loop in the order

dosVars  == <<E, eig, distribution>>
pdosVars == <<eig_v, S, spin>>
velVars  == <<ndim, dHk, dSk, degenerate, parent, is_StateC>>
skVars   == <<is_SparseOrbitalBZSpin, info, format>>
wfVars   == <<v, grid, geometry, k, spinor, grid0, grid_pre, calls>>
gotVars  == <<order, file, tried, f_pos>>
vars     == <<op, pc, ret, E, eig, distribution, eig_v, S, spin,
              ndim, dHk, dSk, degenerate, parent, is_StateC,
              is_SparseOrbitalBZSpin, info, format,
              v, grid, geometry, k, spinor, grid0, grid_pre, calls,
              order, file, tried, f_pos>>

(***************************************************************************)
(* Bounds of the model.                                                    *)
(***************************************************************************)
MaxE      == 2    \* at most this many query energies
MaxStates == 2    \* at most this many eigenvalues / state rows
MaxEnergy == 1    \* energies are drawn from 0..MaxEnergy

\* Python's None: for an argument that is otherwise a name, and for one that is
\* otherwise an array
None  == "None"
NoneM == << >>

Ok(val)   == [kind |-> "ok", val |-> val]
Err(kind) == [kind |-> kind, val |-> <<>>]
NoRet     == [kind |-> "none", val |-> <<>>]

Energies == 0..MaxEnergy

\* all sequences over a set with length lo..hi
SeqsOf(set, lo, hi) == UNION {[1..n -> set] : n \in lo..hi}

RECURSIVE SumSeq(_)
SumSeq(s) == IF Len(s) = 0 THEN 0 ELSE Head(s) + SumSeq(Tail(s))

(***************************************************************************)
(* Distribution functions.  DOS and PDOS accept any callable; the model    *)
(* draws D from two integer-valued kernels: "hat" is even and peaked at 0  *)
(* (the shape of the built-in gaussian), "step" is not even, so E - eig    *)
(* and eig - E are told apart.                                             *)
(***************************************************************************)
Distributions == {"hat", "step"}

Dist(d, x) ==
    IF d = "hat"
    THEN (IF x = 0 THEN 2 ELSE IF x \in {-1, 1} THEN 1 ELSE 0)
    ELSE (IF x >= 0 THEN 1 ELSE 0)

\* distribution(E - e) on the whole array E
DistArray(d, EE, e) == [j \in 1..Len(EE) |-> Dist(d, EE[j] - e)]

(***************************************************************************)
(* DOS (electron.py 73-111)                                                *)
(***************************************************************************)
\* for i in range(1, len(eig)): DOS += distribution(E - eig[i])
RECURSIVE DOSLoop_dropsLast(_, _, _, _, _)
DOSLoop_dropsLast(EE, eg, d, i, acc) ==
    IF i >= Len(eg) THEN acc
    ELSE DOSLoop_dropsLast(EE, eg, d, i + 1,
            [j \in 1..Len(EE) |-> acc[j] + DistArray(d, EE, eg[i])[j]])

RECURSIVE DOSLoop_overwrites(_, _, _, _, _)
DOSLoop_overwrites(EE, eg, d, i, acc) ==
    IF i > Len(eg) THEN acc
    ELSE DOSLoop_overwrites(EE, eg, d, i + 1, DistArray(d, EE, eg[i]))

RECURSIVE DOSLoop(_, _, _, _, _)
DOSLoop(EE, eg, d, i, acc) ==
    IF i > Len(eg) THEN acc
    ELSE DOSLoop(EE, eg, d, i + 1,
            [j \in 1..Len(EE) |-> acc[j] + DistArray(d, EE, eg[i])[j]])

\* DOS = distribution(E - eig[0]); the loop; return DOS
DOS(EE, eg, d) ==
    IF Len(eg) = 0 THEN Err("IndexError")
    ELSE Ok(DOSLoop(EE, eg, d, 2, DistArray(d, EE, eg[1])))

(***************************************************************************)
(* Complex arithmetic and the numpy array operations the engines use.      *)
(***************************************************************************)
C(a, b)    == <<a, b>>
CZero      == <<0, 0>>
CAdd(a, b) == <<a[1] + b[1], a[2] + b[2]>>
CSub(a, b) == <<a[1] - b[1], a[2] - b[2]>>
CMul(a, b) == <<a[1] * b[1] - a[2] * b[2], a[1] * b[2] + a[2] * b[1]>>
CConj(a)   == <<a[1], -a[2]>>
CScale(c, a) == <<c * a[1], c * a[2]>>
Re(a)      == a[1]
Im(a)      == a[2]

RECURSIVE CSum(_)
CSum(s) == IF Len(s) = 0 THEN CZero ELSE CAdd(Head(s), CSum(Tail(s)))

Conj(x) == [b \in 1..Len(x) |-> CConj(x[b])]

\* shape of a matrix (a non-empty sequence of rows of one length)
NRows(M) == Len(M)
NCols(M) == Len(M[1])

\* M.dot(x) for a matrix M and a 1-D array x with len(x) = M.shape[1]
MatVec(M, x) ==
    [a \in 1..NRows(M) |-> CSum([b \in 1..NCols(M) |-> CMul(M[a][b], x[b])])]

\* A.dot(B) for matrices with A.shape[1] = B.shape[0]
MatMul(A, B) ==
    [a \in 1..NRows(A) |->
        [c \in 1..NCols(B) |->
            CSum([b \in 1..NCols(A) |-> CMul(A[a][b], B[b][c])])]]

\* M.T
Transpose(M) == [c \in 1..NCols(M) |-> [a \in 1..NRows(M) |-> M[a][c]]]

\* number of entries of a[start::step] for an array of length len (0-based start)
SliceLen(len, start, step) ==
    IF len <= start THEN 0 ELSE ((len - start) + (step - 1)) \div step

\* a[start::step] (0-based start): entries start, start + step, ...
Slice(a, start, step) ==
    [q \in 1..SliceLen(Len(a), start, step) |-> a[start + (q - 1) * step + 1]]

\* M[::2, ::2]
Subsample(M) == [a \in 1..SliceLen(NRows(M), 0, 2) |-> Slice(M[2 * a - 1], 0, 2)]

\* row.reshape(-1, 2) of an even-length row: entry o is the pair (up, down)
Reshape2(row) == [o \in 1..(Len(row) \div 2) |-> <<row[2 * o - 1], row[2 * o]>>]

\* m.ravel() of an (m, 2) array
Ravel2(m) == [q \in 1..(2 * Len(m)) |-> m[(q + 1) \div 2][2 - (q % 2)]]

(***************************************************************************)
(* Spin kinds (sisl.physics.spin.Spin is not among the sources; the order  *)
(* of the kinds is the one the specification states: non-collinear and     *)
(* spin-orbit are both "kind > polarized").                                *)
(***************************************************************************)
SpinKinds == {"unpolarized", "polarized", "non-collinear", "spin-orbit"}

SpinKind(s) ==
    CASE s = "unpolarized"   -> 0
      [] s = "polarized"     -> 1
      [] s = "non-collinear" -> 2
      [] s = "spin-orbit"    -> 3

POLARIZED == SpinKind("polarized")

(***************************************************************************)
(* PDOS (electron.py 114-242)                                              *)
(*                                                                         *)
(* The overlap the function works with is a record: fake = TRUE is the     *)
(* inline class of lines 192-197 (a shape, a dot that returns its          *)
(* argument, and no subscript operation), fake = FALSE an explicit matrix. *)
(***************************************************************************)
FakeS(n)  == [fake |-> TRUE,  cols |-> n, m |-> <<>>]
MatS(M)   == [fake |-> FALSE, cols |-> NCols(M), m |-> M]

\* lines 191-197: if S is None: class S(object) with shape (n, n)
DefaultS(Sarg, n) == IF Sarg = NoneM THEN FakeS(n) ELSE MatS(Sarg)

\* lines 199-204: the spin configuration when none is passed
AutoSpin(Sx, n) == IF Sx.cols = n \div 2 THEN "non-collinear" ELSE "unpolarized"

\* lines 200-202: the overlap after the auto-detection (a matrix here: a fake
\* overlap has n columns, and n = n // 2 has no solution for n >= 1)
AutoS(Sx, n) == IF Sx.cols = n \div 2 THEN MatS(Subsample(Sx.m)) ELSE Sx

\* S.dot(v) for a 1-D v
SDotVec(Sx, x) == IF Sx.fake THEN x ELSE MatVec(Sx.m, x)

\* S.dot(v) for a 2-D v of shape (len(v), 2)
SDotMat(Sx, x) == IF Sx.fake THEN x ELSE MatMul(Sx.m, x)

\* the (4, no, len(E)) contribution of one state (lines 217-224, 226-233):
\* d = distribution(E - eig[i]), v = S.dot(eig_v[i].reshape(-1, 2))
NCChannels_zBeforeX(row, vv, d) ==
    LET prod == [q \in 1..Len(row) |-> Re(CMul(CConj(row[q]), Ravel2(vv)[q]))]
        D    == Reshape2(prod)
        down == Slice(row, 1, 2)
        X    == [o \in 1..Len(down) |->
                    CMul(CScale(2, CConj(down[o])), vv[o][1])]
    IN  << [o \in 1..Len(D) |-> [j \in 1..Len(d) |-> (D[o][1] + D[o][2]) * d[j]]],
           [o \in 1..Len(D) |-> [j \in 1..Len(d) |-> (D[o][1] - D[o][2]) * d[j]]],
           [o \in 1..Len(D) |-> [j \in 1..Len(d) |-> Re(X[o]) * d[j]]],
           [o \in 1..Len(D) |-> [j \in 1..Len(d) |-> Im(X[o]) * d[j]]] >>

NCChannels(row, vv, d) ==
    LET prod == [q \in 1..Len(row) |-> Re(CMul(CConj(row[q]), Ravel2(vv)[q]))]
        D    == Reshape2(prod)
        down == Slice(row, 1, 2)
        X    == [o \in 1..Len(down) |->
                    CMul(CScale(2, CConj(down[o])), vv[o][1])]
    IN  << [o \in 1..Len(D) |-> [j \in 1..Len(d) |-> (D[o][1] + D[o][2]) * d[j]]],
           [o \in 1..Len(D) |-> [j \in 1..Len(d) |-> Re(X[o]) * d[j]]],
           [o \in 1..Len(D) |-> [j \in 1..Len(d) |-> Im(X[o]) * d[j]]],
           [o \in 1..Len(D) |-> [j \in 1..Len(d) |-> (D[o][1] - D[o][2]) * d[j]]] >>

\* whether state i's contribution can be computed on the non-collinear path:
\* reshape(-1, 2) needs an even width, S.dot a matching inner dimension
NCStateOk(Sx, n) == n % 2 = 0 /\ (Sx.fake \/ Sx.cols = n \div 2)

AddNC(A, B) ==
    [c \in 1..4 |-> [o \in 1..Len(A[c]) |->
        [j \in 1..Len(A[c][o]) |-> A[c][o][j] + B[c][o][j]]]]

RECURSIVE PDOSLoopNC(_, _, _, _, _, _, _)
PDOSLoopNC(EE, eg, ev, Sx, d, i, acc) ==
    IF i > Len(eg) THEN acc
    ELSE PDOSLoopNC(EE, eg, ev, Sx, d, i + 1,
            AddNC(acc, NCChannels(ev[i], SDotMat(Sx, Reshape2(ev[i])),
                                  DistArray(d, EE, eg[i]))))

\* the (n, len(E)) contribution of one state on the collinear path (236-240)
ColChannels_ignoresOverlap(row, Sv, d) ==
    [q \in 1..Len(row) |->
        [j \in 1..Len(d) |-> Re(CMul(CConj(row[q]), row[q])) * d[j]]]

ColChannels(row, Sv, d) ==
    [q \in 1..Len(row) |->
        [j \in 1..Len(d) |-> Re(CMul(CConj(row[q]), Sv[q])) * d[j]]]

AddCol(A, B) ==
    [q \in 1..Len(A) |-> [j \in 1..Len(A[q]) |-> A[q][j] + B[q][j]]]

RECURSIVE PDOSLoopCol(_, _, _, _, _, _, _)
PDOSLoopCol(EE, eg, ev, Sx, d, i, acc) ==
    IF i > Len(eg) THEN acc
    ELSE PDOSLoopCol(EE, eg, ev, Sx, d, i + 1,
            AddCol(acc, ColChannels(ev[i], SDotVec(Sx, ev[i]),
                                    DistArray(d, EE, eg[i]))))

\* lines 207-233: the non-collinear / spin-orbit path
PDOSNonCollinear_anyOverlap(EE, eg, ev, Sx, d) ==
    LET n == NCols(ev)
    IN  IF Sx.cols = n /\ Sx.fake
        THEN Err("TypeError")
        ELSE IF n % 2 # 0
             THEN Err("ValueError")
             ELSE LET S2 == IF Sx.cols = n THEN MatS(Subsample(Sx.m))
                            ELSE IF Sx.cols = n \div 2 THEN Sx
                            ELSE FakeS(n \div 2)
                  IN  Ok(PDOSLoopNC(EE, eg, ev, S2, d, 2,
                          NCChannels(ev[1], SDotMat(S2, Reshape2(ev[1])),
                                     DistArray(d, EE, eg[1]))))

PDOSNonCollinear(EE, eg, ev, Sx, d) ==
    LET n == NCols(ev)
    IN  IF Sx.cols = n /\ Sx.fake
        THEN Err("TypeError")           \* line 212: S[::2, ::2] on the inline class
        ELSE LET S2 == IF Sx.cols = n THEN MatS(Subsample(Sx.m)) ELSE Sx
             IN  IF ~NCStateOk(S2, n)
                 THEN Err("ValueError") \* line 218: reshape or dot refuses the shapes
                 ELSE Ok(PDOSLoopNC(EE, eg, ev, S2, d, 2,
                          NCChannels(ev[1], SDotMat(S2, Reshape2(ev[1])),
                                     DistArray(d, EE, eg[1]))))

\* lines 235-240: the collinear path
PDOSCollinear(EE, eg, ev, Sx, d) ==
    LET n == NCols(ev)
    IN  IF ~(Sx.fake \/ Sx.cols = n)
        THEN Err("ValueError")          \* line 236: dot refuses the shapes
        ELSE Ok(PDOSLoopCol(EE, eg, ev, Sx, d, 2,
                 ColChannels(ev[1], SDotVec(Sx, ev[1]),
                             DistArray(d, EE, eg[1]))))

PDOS(EE, eg, ev, Sarg, d, sp) ==
    LET n   == NCols(ev)
        S0  == DefaultS(Sarg, n)
        sp1 == IF sp = None THEN AutoSpin(S0, n) ELSE sp
        S1  == IF sp = None THEN AutoS(S0, n) ELSE S0
    IN  IF SpinKind(sp1) > POLARIZED
        THEN PDOSNonCollinear(EE, eg, ev, S1, d)
        ELSE PDOSCollinear(EE, eg, ev, S1, d)

(***************************************************************************)
(* spin_moment (electron.py 245-319)                                       *)
(***************************************************************************)
\* lines 293-299: the stand-in for an omitted overlap has the shape
\* (n // 2, n // 2)
DefaultSpinS(Sarg, n) == IF Sarg = NoneM THEN FakeS(n \div 2) ELSE MatS(Sarg)

\* lines 312-317: the (x, y, z) moment of one state row, Sx the overlap
\* between the orbitals
MomentOfRow_crossFromUp(row, Sx) ==
    LET Sstate == SDotMat(Sx, Reshape2(row))
        D      == Reshape2([q \in 1..Len(row) |->
                               Re(CMul(CConj(row[q]), Ravel2(Sstate)[q]))])
        up     == Slice(row, 0, 2)
        X      == CScale(2, CSum([o \in 1..Len(up) |->
                                    CMul(CConj(up[o]), Sstate[o][1])]))
    IN  << Re(X), Im(X), SumSeq([o \in 1..Len(D) |-> D[o][1] - D[o][2]]) >>

MomentOfRow(row, Sx) ==
    LET Sstate == SDotMat(Sx, Reshape2(row))
        D      == Reshape2([q \in 1..Len(row) |->
                               Re(CMul(CConj(row[q]), Ravel2(Sstate)[q]))])
        down   == Slice(row, 1, 2)
        X      == CScale(2, CSum([o \in 1..Len(down) |->
                                    CMul(CConj(down[o]), Sstate[o][1])]))
    IN  << Re(X), Im(X), SumSeq([o \in 1..Len(D) |-> D[o][1] - D[o][2]]) >>

\* lines 301-302: a full-width overlap is reduced to its spin-diagonal block
ReduceS_keepsFull(Sx, n) == Sx

ReduceS(Sx, n) == IF Sx.cols = n THEN MatS(Subsample(Sx.m)) ELSE Sx

\* lines 290-319; nd is state.ndim, and a 1-D state is held as its one row
\* (290-291: the (1, 3) result is ravelled).  Line 312 raises numpy's
\* ValueError when the row cannot be reshaped to pairs or when the overlap
\* does not have one column per orbital.
spin_moment(state, nd, Sarg) ==
    LET n  == NCols(state)
        S0 == DefaultSpinS(Sarg, n)
    IN  IF S0.cols = n /\ S0.fake
        THEN Err("TypeError")           \* line 302: S[::2, ::2] on the inline class
        ELSE LET S1 == ReduceS(S0, n)
             IN  IF ~NCStateOk(S1, n)
                 THEN Err("ValueError")
                 ELSE LET s == [i \in 1..NRows(state) |-> MomentOfRow(state[i], S1)]
                      IN  Ok(IF nd = 1 THEN s[1] ELSE s)

(***************************************************************************)
(* velocity (electron.py 322-457)                                          *)
(*                                                                         *)
(* _velocity_const is 1 / 6.582119514e-16 * 1e-12 = 1519.267...; the model *)
(* keeps its integer part, so a velocity is an integer multiple of it.     *)
(*                                                                         *)
(* The functions return the set of results the call can have: the set is a *)
(* singleton except where a degenerate group ties, and eigh's order of the *)
(* tied eigenvectors is not determined.                                    *)
(***************************************************************************)
_velocity_const == 1519

\* x * y for 1-D arrays under numpy's broadcasting rule; <<"ValueError">> when
\* the lengths cannot be broadcast
CanBroadcast(n, m) == n = m \/ n = 1 \/ m = 1

BroadcastMul(x, y) ==
    IF Len(x) = Len(y) THEN [q \in 1..Len(x) |-> CMul(x[q], y[q])]
    ELSE IF Len(x) = 1 THEN [q \in 1..Len(y) |-> CMul(x[1], y[q])]
    ELSE [q \in 1..Len(x) |-> CMul(x[q], y[1])]

\* A - e * B for matrices of one shape
MatSubScaled(A, e, B) ==
    [a \in 1..NRows(A) |->
        [b \in 1..NCols(A) |-> CSub(A[a][b], CScale(e, B[a][b]))]]

\* M[deg, :] for a list of row indices
RowsAt(M, deg) == [a \in 1..Len(deg) |-> M[deg[a]]]

\* eigh_destroy(vv)[1] for a diagonal vv (sisl.linalg is not among the
\* sources): the eigenvectors are the columns, by ascending eigenvalue; for a
\* diagonal matrix they are unit vectors, in any order that sorts the
\* diagonal.  U[b][a] = 1 iff column a is the unit vector b.
EighVectors(vv) ==
    LET g == Len(vv)
    IN  { [b \in 1..g |-> [a \in 1..g |-> IF p[a] = b THEN C(1,0) ELSE CZero]] :
            p \in { q \in Permutations(1..g) :
                      \A a, b \in 1..g :
                          a < b => Re(vv[q[a]][q[a]]) <= Re(vv[q[b]][q[b]]) } }

\* eigh_destroy(vv)[1].T.dot(S), for every eigenvector matrix eigh can return
Rotations(vv, Sm) == { MatMul(Transpose(U), Sm) : U \in EighVectors(vv) }

\* conj(A).dot(M.dot(A.T)): the operator M restricted to the rows of A
Restricted(A, M) ==
    MatMul([a \in 1..NRows(A) |-> Conj(A[a])], MatMul(M, Transpose(A)))

\* (conj(x) * M.dot(x)).sum().real
Expect(x, M) == Re(CSum(BroadcastMul(Conj(x), MatVec(M, x))))

\* lines 435-440: the basis of one degenerate group after the x, y and z
\* diagonalisations, each in the basis the previous one left
DecoupleOrtho(state, Hk, deg) ==
    LET S0 == RowsAt(state, deg)
    IN  UNION { UNION { Rotations(Restricted(S2, Slice(Hk, 2, 3)), S2) :
                          S2 \in Rotations(Restricted(S1, Slice(Hk, 1, 3)), S1) } :
                   S1 \in Rotations(Restricted(S0, Slice(Hk, 0, 3)), S0) }

\* lines 443-445: v[deg, :] from the rotated basis Sm
AssignOrtho_clearsOthers(vel, Hk, deg, Sm) ==
    [s \in 1..Len(vel) |->
        IF \E a \in 1..Len(deg) : deg[a] = s
        THEN LET a == CHOOSE a \in 1..Len(deg) : deg[a] = s
             IN  [al \in 1..3 |-> Expect(Sm[a], Slice(Hk, al - 1, 3))]
        ELSE [al \in 1..3 |-> 0]]

AssignOrtho(vel, Hk, deg, Sm) ==
    [s \in 1..Len(vel) |->
        IF \E a \in 1..Len(deg) : deg[a] = s
        THEN LET a == CHOOSE a \in 1..Len(deg) : deg[a] = s
             IN  [al \in 1..3 |-> Expect(Sm[a], Slice(Hk, al - 1, 3))]
        ELSE vel[s]]

\* lines 430-445: for deg in degenerate
RECURSIVE DegLoopOrtho(_, _, _, _, _)
DegLoopOrtho(state, Hk, degs, gi, vel) ==
    IF gi > Len(degs) THEN {vel}
    ELSE UNION { DegLoopOrtho(state, Hk, degs, gi + 1,
                              AssignOrtho(vel, Hk, degs[gi], Sm)) :
                   Sm \in DecoupleOrtho(state, Hk, degs[gi]) }

\* lines 423-427: v[:, al] = (conj(state.T) * dHkstate[al::3, :]).sum(0).real
AllDirections_doubled(state, Hk) ==
    LET dHkstate == MatMul(Hk, Transpose(state))
    IN  [s \in 1..NRows(state) |->
            [al \in 1..3 |->
                2 * Re(CSum([nu \in 1..NCols(state) |->
                        CMul(CConj(state[s][nu]),
                             Slice(dHkstate, al - 1, 3)[nu][s])]))]]

AllDirections(state, Hk) ==
    LET dHkstate == MatMul(Hk, Transpose(state))
    IN  [s \in 1..NRows(state) |->
            [al \in 1..3 |->
                Re(CSum([nu \in 1..NCols(state) |->
                        CMul(CConj(state[s][nu]),
                             Slice(dHkstate, al - 1, 3)[nu][s])]))]]

\* line 451: v = (conj(state.T) * dHk.dot(state.T)).sum(0).real
OneDirection_noConj(state, Hk) ==
    LET dHkstate == MatMul(Hk, Transpose(state))
    IN  [s \in 1..NRows(state) |->
            Re(CSum([nu \in 1..NCols(state) |->
                    CMul(state[s][nu], dHkstate[nu][s])]))]

OneDirection(state, Hk) ==
    LET dHkstate == MatMul(Hk, Transpose(state))
    IN  [s \in 1..NRows(state) |->
            Re(CSum([nu \in 1..NCols(state) |->
                    CMul(CConj(state[s][nu]), dHkstate[nu][s])]))]

\* v * _velocity_const for an (ns, 3) array and for a 1-D array
Scaled2_unscaled(vel) == vel

Scaled2(vel) == [s \in 1..Len(vel) |-> [al \in 1..Len(vel[s]) |-> vel[s][al] * _velocity_const]]
Scaled1(vel) == [s \in 1..Len(vel) |-> vel[s] * _velocity_const]

\* the shape test of lines 417, 449 and 453
ShapeCase(state, Hk) ==
    IF NRows(Hk) = NCols(state) * 3 THEN "three"
    ELSE IF NRows(Hk) = NCols(state) THEN "one"
    ELSE "unsupported"

_velocity_ortho(state, Hk, degs) ==
    CASE ShapeCase(state, Hk) = "three" ->
            { Ok(Scaled2(vel)) :
                vel \in DegLoopOrtho(state, Hk, degs, 1, AllDirections(state, Hk)) }
      [] ShapeCase(state, Hk) = "one" ->
            { Ok(Scaled1(OneDirection(state, Hk))) }
      [] OTHER -> { Err("SislError") }

\* lines 379-387: whether the three products conj(state[s]) * dHkstate[al::3]
\* broadcast, for a dHk with r rows and states of width n
FirstLoopOk(n, r) == \A al \in 0..2 : CanBroadcast(n, SliceLen(r, al, 3))

\* lines 383-387: v[s, :] for every state s with its own energy
PerState_firstEnergy(state, Hk, energy, Sk) ==
    [s \in 1..NRows(state) |->
        LET dHkstate == MatVec(MatSubScaled(Hk, energy[1], Sk), state[s])
        IN  [al \in 1..3 |->
                Re(CSum(BroadcastMul(Conj(state[s]), Slice(dHkstate, al - 1, 3))))]]

PerState(state, Hk, energy, Sk) ==
    [s \in 1..NRows(state) |->
        LET dHkstate == MatVec(MatSubScaled(Hk, energy[s], Sk), state[s])
        IN  [al \in 1..3 |->
                Re(CSum(BroadcastMul(Conj(state[s]), Slice(dHkstate, al - 1, 3))))]]

\* np.average(energy[deg]); the members of a group have one energy
Average(energy, deg) == SumSeq([a \in 1..Len(deg) |-> energy[deg[a]]]) \div Len(deg)

\* lines 392-402: the basis of one degenerate group after the x, y and z
\* diagonalisations of dHk - average(energy[deg]) * dSk
DecoupleNonOrtho_skipsZ(state, Hk, energy, Sk, deg) ==
    LET S0  == RowsAt(state, deg)
        e   == Average(energy, deg)
        M(al) == MatSubScaled(Slice(Hk, al, 3), e, Slice(Sk, al, 3))
    IN  UNION { Rotations(Restricted(S1, M(1)), S1) :
                   S1 \in Rotations(Restricted(S0, M(0)), S0) }

DecoupleNonOrtho(state, Hk, energy, Sk, deg) ==
    LET S0  == RowsAt(state, deg)
        e   == Average(energy, deg)
        M(al) == MatSubScaled(Slice(Hk, al, 3), e, Slice(Sk, al, 3))
    IN  UNION { UNION { Rotations(Restricted(S2, M(2)), S2) :
                          S2 \in Rotations(Restricted(S1, M(1)), S1) } :
                   S1 \in Rotations(Restricted(S0, M(0)), S0) }

\* lines 405-408: v[deg[s], :] from the rotated basis, each state with its energy
AssignNonOrtho(vel, Hk, energy, Sk, deg, Sm) ==
    [s \in 1..Len(vel) |->
        IF \E a \in 1..Len(deg) : deg[a] = s
        THEN LET a == CHOOSE a \in 1..Len(deg) : deg[a] = s
             IN  [al \in 1..3 |->
                    Expect(Sm[a], MatSubScaled(Slice(Hk, al - 1, 3), energy[s],
                                               Slice(Sk, al - 1, 3)))]
        ELSE vel[s]]

RECURSIVE DegLoopNonOrtho(_, _, _, _, _, _, _)
DegLoopNonOrtho(state, Hk, energy, Sk, degs, gi, vel) ==
    IF gi > Len(degs) THEN {vel}
    ELSE UNION { DegLoopNonOrtho(state, Hk, energy, Sk, degs, gi + 1,
                    AssignNonOrtho(vel, Hk, energy, Sk, degs[gi], Sm)) :
                   Sm \in DecoupleNonOrtho(state, Hk, energy, Sk, degs[gi]) }

\* lines 373-412.  There is no test of dHk's shape: a product that cannot be
\* broadcast (385-387) or a dot whose dimensions differ (397) raises numpy's
\* ValueError, and every other shape is computed with.
_velocity_non_ortho(state, Hk, energy, Sk, degs) ==
    LET n == NCols(state)
        r == NRows(Hk)
    IN  IF ~FirstLoopOk(n, r) THEN { Err("ValueError") }
        ELSE IF Len(degs) > 0 /\ r # 3 * n THEN { Err("ValueError") }
        ELSE { Ok(Scaled2(vel)) :
                 vel \in DegLoopNonOrtho(state, Hk, energy, Sk, degs, 1,
                                       PerState(state, Hk, energy, Sk)) }

\* .ravel() of line 362 on the result for the one row of a 1-D state: an
\* (1, 3) array becomes a length-3 array, a length-1 array stays as it is
RavelResult(res, twoD) ==
    IF res.kind = "ok" /\ twoD THEN Ok(res.val[1]) ELSE res

\* lines 361-366; ndim is state.ndim, and a 1-D state is held as its one row
velocity(state, nd, Hk, energy, Sk, degs) ==
    LET res  == IF Sk # NoneM
                THEN _velocity_non_ortho(state, Hk, energy, Sk, degs)
                ELSE _velocity_ortho(state, Hk, degs)
        twoD == Sk # NoneM \/ ShapeCase(state, Hk) = "three"
    IN  IF nd = 1 THEN { RavelResult(x, twoD) : x \in res } ELSE res

\* the state matrix the caller holds after velocity.  state[deg, :] with an
\* index list is a copy, the rotations of lines 398-402 and 436-440 rebind
\* the local S, and eigh_destroy overwrites only the product vv: nothing is
\* assigned to state
StateAfterVelocity_rotated(state, degs) ==
    [s \in 1..NRows(state) |->
        IF \E gi \in 1..Len(degs) : \E a \in 1..Len(degs[gi]) : degs[gi][a] = s
        THEN LET gi == CHOOSE x \in 1..Len(degs) :
                          \E a \in 1..Len(degs[x]) : degs[x][a] = s
                 a  == CHOOSE x \in 1..Len(degs[gi]) : degs[gi][x] = s
             IN  state[degs[gi][Len(degs[gi]) + 1 - a]]
        ELSE state[s]]

StateAfterVelocity(state, degs) == state

(***************************************************************************)
(* _common_State.velocity (electron.py 878-912).  The parent is a record   *)
(* of what it exposes; is_StateC tells a StateC (which has degenerate()    *)
(* and the coefficients c) from a plain State.  Everything inside the try  *)
(* block (896-909) that fails is re-raised as SislError (910-911); the     *)
(* call on line 912 is outside it.                                         *)
(***************************************************************************)
\* StateC.degenerate(eps) (sisl.physics.state is not among the sources): the
\* groups of two or more states whose energies lie within eps; the energies
\* are ascending integers and eps < 1, so a group is a maximal run of equal
\* energies
Degenerate(c) ==
    LET starts == { a \in 1..Len(c) :
                      /\ (a = 1 \/ c[a - 1] # c[a])
                      /\ a < Len(c) /\ c[a + 1] = c[a] }
        run(a) == LET last == CHOOSE b \in a..Len(c) :
                                /\ \A x \in a..b : c[x] = c[a]
                                /\ (b = Len(c) \/ c[b + 1] # c[a])
                  IN  [x \in 1..(last - a + 1) |-> a + x - 1]
        RECURSIVE build(_)
        build(rest) == IF rest = {} THEN << >>
                       ELSE LET a == CHOOSE x \in rest : \A y \in rest : x <= y
                            IN  <<run(a)>> \o build(rest \ {a})
    IN  build(starts)

TryBlockFails(par, isC) ==
    \/ ~par.has_orthogonal                       \* line 902
    \/ (~par.orthogonal /\ ~par.has_dSk)         \* line 905
    \/ ~isC                                \* line 909

State_velocity(par, isC, state, c, parent_Hk, parent_Sk) ==
    IF TryBlockFails(par, isC) THEN { Err("SislError") }
    ELSE IF ~par.has_dHk THEN { Err("AttributeError") }   \* line 912
    ELSE velocity(state, 2, parent_Hk, c,
                  IF par.orthogonal THEN NoneM ELSE parent_Sk, Degenerate(c))

(***************************************************************************)
(* _common_State.Sk (electron.py 791-836).  An overlap object is a record  *)
(* of what the callers use: whether it is the stand-in class, its shape,   *)
(* and, for the parent's overlap, the options parent.Sk was called with.   *)
(***************************************************************************)
NoOpt == [k |-> NoneM, format |-> None, gauge |-> None]

\* lines 817-823 and 828-834: class __FakeSk with shape (n, n) and dot(v) = v
FakeSk(n) == [fake |-> TRUE, shape |-> <<n, n>>, opt |-> NoOpt]

\* parent.Sk(**opt) (SparseOrbitalBZSpin is not among the sources): the
\* overlap of the parent for the options passed, of the width of the states
ParentSk(n, opt) == [fake |-> FALSE, shape |-> <<n, n>>, opt |-> opt]

\* lines 811-815: k from info with default (0, 0, 0), the format, and the
\* gauge when info has one (None: left to the parent's default)
SkOptions(inf, fmt) ==
    [k      |-> IF inf.k = NoneM THEN <<0, 0, 0>> ELSE inf.k,
     format |-> fmt,
     gauge  |-> inf.gauge]

\* X.dot(v) for an overlap object: the stand-in returns v (line 822); the
\* parent's overlap is a matrix that is not the identity
SkDot(Sx, x) == IF Sx.fake THEN x ELSE [q \in 1..Len(x) |-> CScale(2, x[q])]

\* lines 825-835: the stand-in for the spin passed
FakeForSpin_fullWidth(n, sp) == FakeSk(n)

FakeForSpin(n, sp) ==
    IF sp = None THEN FakeSk(n)
    ELSE IF SpinKind(sp) > POLARIZED THEN FakeSk(n \div 2)
    ELSE FakeSk(n)

\* lines 808-835
State_Sk(par, isSrc, inf, fmt, n, sp) ==
    IF isSrc /\ ~par.orthogonal
    THEN Ok(ParentSk(n, SkOptions(inf, fmt)))
    ELSE Ok(FakeForSpin(n, sp))

(***************************************************************************)
(* wavefunction (electron.py 460-778)                                      *)
(*                                                                         *)
(* The grid is orthogonal with its origin at 0 and one geometry cell per   *)
(* grid cell.  Lengths are integers: one grid step is Unit length units,   *)
(* so grid point c lies at c * Unit on each axis and an atom may lie       *)
(* between grid points.  Grid indices start at 0 as in the code.  The      *)
(* comparisons r <= R of the code are made on the squares.                 *)
(*                                                                         *)
(* A coefficient array is a record: complex is its dtype (np.iscomplexobj),*)
(* ndim its number of dimensions, rows its rows (one row when ndim = 1).   *)
(* A grid is a record: grid is the amplitude array, complex its dtype,     *)
(* geometry the associated geometry or None.  A geometry is held by name.  *)
(***************************************************************************)
Unit      == 2          \* length units per grid step
GridShape == <<3, 2, 2>>
Axes      == 1..3
Cells     == (0..(GridShape[1] - 1)) \X (0..(GridShape[2] - 1)) \X (0..(GridShape[3] - 1))

\* grid.sc.cell and geometry.cell: the diagonal of the orthogonal cell
CellLen(a) == GridShape[a] * Unit

\* an orbital is [R, amp]; the model's orbitals are s-like, psi_spher depends
\* on r alone: amp * (1 + R^2 - r^2) inside the cutoff
Orb(R, amp) == [R |-> R, amp |-> amp]

GeometryNames == {"centre", "edge", "mixed", "shell", "column"}

\* xyz: atom positions, atom: the orbitals of each atom, pbc: the periodic
\* directions (line 645)
Geom(name) ==
    CASE name = "centre" ->
           [xyz  |-> << <<Unit, Unit, Unit>> >>,
            atom |-> << <<Orb(Unit, 1)>> >>,
            pbc  |-> <<FALSE, FALSE, FALSE>>]
      [] name = "edge" ->
           [xyz  |-> << <<0, 1, 0>> >>,
            atom |-> << <<Orb(Unit + 1, 1), Orb(1, 2)>> >>,
            pbc  |-> <<TRUE, FALSE, FALSE>>]
      [] name = "mixed" ->
           [xyz  |-> << <<Unit + 1, Unit, 1>>, <<1, 0, Unit>> >>,
            atom |-> << <<Orb(Unit, 1), Orb(0, 5), Orb(Unit, 3)>>, <<Orb(-1, 7)>> >>,
            pbc  |-> <<FALSE, TRUE, FALSE>>]
      [] name = "shell" ->
           [xyz  |-> << <<1, 0, 0>> >>,
            atom |-> << <<Orb(Unit + 1, 1), Orb(1, 2)>> >>,
            pbc  |-> <<FALSE, FALSE, FALSE>>]
      [] name = "column" ->
           [xyz  |-> << <<0, 0, 1>> >>,
            atom |-> << <<Orb(Unit + 1, 1)>> >>,
            pbc  |-> <<FALSE, FALSE, TRUE>>]

Max(a, b) == IF a >= b THEN a ELSE b
Min(a, b) == IF a <= b THEN a ELSE b

\* Atom.maxR, Geometry.maxR, Geometry.no, Geometry.a2o (sisl.geometry and
\* sisl.atom are not among the sources)
RECURSIVE maxR(_)
maxR(atom) == IF Len(atom) = 0 THEN 0
              ELSE IF Len(atom) = 1 THEN atom[1].R
              ELSE Max(atom[1].R, maxR(Tail(atom)))

GeometryMaxR(geo) == LET rs == { maxR(geo.atom[ia]) : ia \in 1..Len(geo.atom) }
                     IN  CHOOSE m \in rs : \A x \in rs : x <= m

RECURSIVE a2o(_, _)
a2o(geo, ia) == IF ia = 1 THEN 0 ELSE a2o(geo, ia - 1) + Len(geo.atom[ia - 1])

no(geo) == a2o(geo, Len(geo.atom) + 1)

\* Geometry.within_inf on the cuboid of the grid cell grown by maxR on every
\* side (654-665): the images <<ia, isc>> whose centre lies in the cuboid;
\* isc is 0 along a direction that is not periodic
Shifts(geo) == { isc \in [Axes -> -1..1] : \A a \in Axes : ~geo.pbc[a] => isc[a] = 0 }

ImageXYZ(geo, ia, isc) == [a \in Axes |-> geo.xyz[ia][a] + isc[a] * CellLen(a)]

within_inf(geo, add_R) ==
    { im \in [ia : 1..Len(geo.atom), isc : Shifts(geo)] :
        \A a \in Axes :
            /\ ImageXYZ(geo, im.ia, im.isc)[a] >= -add_R
            /\ ImageXYZ(geo, im.ia, im.isc)[a] <= CellLen(a) + add_R }

\* a float stored into an integer array loses its fraction (towards zero);
\* floor and ceil of n / d
TruncDiv(n, d) == IF n >= 0 THEN n \div d ELSE -((-n) \div d)
FloorDiv(n, d) == n \div d
CeilDiv(n, d)  == -((-n) \div d)

\* the extremes of the unit sphere sampled every degree (592-611), in parts
\* of CosScale: theta runs over [-pi, pi) and phi over [0, pi), so the x and
\* y components and the upper z reach 1 and the lower z stops at cos(179 deg)
CosScale == 100000
Cos179   == 99985
SampleMin(a) == IF a = 3 THEN -Cos179 ELSE -CosScale
SampleMax(a) == CosScale

\* idx_mm[ia, 0, :] and idx_mm[ia, 1, :] (602, 615-629), an integer array
idx_mm(geo, ia, which) ==
    LET R == maxR(geo.atom[ia])
    IN  [a \in Axes |->
           TruncDiv((IF which = 0 THEN SampleMin(a) ELSE SampleMax(a)) * R
                        + CosScale * geo.xyz[ia][a],
                    CosScale * Unit)]

\* geom_shape (569): the geometry cell in grid steps
geom_shape(a) == CellLen(a) \div Unit

\* Orbital.psi_spher at squared distance r2
psi_spher(o, r2) == o.amp * (1 + o.R * o.R - r2)

\* Atom.iter(True): consecutive orbitals of one radius form a group; the last
\* index of the group that starts at j
RECURSIVE GroupEnd(_, _)
GroupEnd(atom, j) == IF j < Len(atom) /\ atom[j + 1].R = atom[j].R
                     THEN GroupEnd(atom, j + 1) ELSE j

RECURSIVE GroupSum(_, _, _, _, _, _)
GroupSum(atom, o, last, io, vv, r2) ==
    IF o > last THEN CZero
    ELSE CAdd(CScale(psi_spher(atom[o], r2), vv[io + 1]),
              GroupSum(atom, o + 1, last, io + 1, vv, r2))

\* the orbital loop (731-760) at one point of the sphere: j is the first
\* orbital of the next group, io the coefficient index (0-based)
RECURSIVE OrbitalLoop_noMask(_, _, _, _, _, _)
OrbitalLoop_noMask(atom, j, io, vv, r2, R) ==
    IF j > Len(atom) THEN CZero
    ELSE LET last == GroupEnd(atom, j)
             oR   == atom[j].R
         IN  IF oR <= 0
             THEN OrbitalLoop_noMask(atom, last + 1, io + (last - j + 1), vv, r2, R)
             ELSE CAdd(GroupSum(atom, j, last, io, vv, r2),
                       OrbitalLoop_noMask(atom, last + 1, io + (last - j + 1), vv, r2, R))

\* the loop with a skip that leaves the coefficient index where it was
RECURSIVE OrbitalLoop_skipKeepsIndex(_, _, _, _, _, _)
OrbitalLoop_skipKeepsIndex(atom, j, io, vv, r2, R) ==
    IF j > Len(atom) THEN CZero
    ELSE LET last == GroupEnd(atom, j)
             oR   == atom[j].R
         IN  IF oR <= 0
             THEN OrbitalLoop_skipKeepsIndex(atom, last + 1, io, vv, r2, R)
             ELSE CAdd(IF R - oR < 1 \/ r2 <= oR * oR
                       THEN GroupSum(atom, j, last, io, vv, r2) ELSE CZero,
                       OrbitalLoop_skipKeepsIndex(atom, last + 1,
                                                  io + (last - j + 1), vv, r2, R))

RECURSIVE OrbitalLoop(_, _, _, _, _, _)
OrbitalLoop(atom, j, io, vv, r2, R) ==
    IF j > Len(atom) THEN CZero
    ELSE LET last == GroupEnd(atom, j)
             oR   == atom[j].R
         IN  IF oR <= 0
             THEN OrbitalLoop(atom, last + 1, io + (last - j + 1), vv, r2, R)
             ELSE CAdd(IF R - oR < 1 \/ r2 <= oR * oR
                       THEN GroupSum(atom, j, last, io, vv, r2) ELSE CZero,
                       OrbitalLoop(atom, last + 1, io + (last - j + 1), vv, r2, R))

\* rx^2 + ry^2 + rz^2 of grid point c seen from the centre xyz (578-584)
Dist2(c, xyz) ==
    SumSeq([a \in Axes |-> (c[a] * Unit - xyz[a]) * (c[a] * Unit - xyz[a])])

\* grid.grid[box] += psi (767)
AddPsi_overwrites(old, psi) == psi

AddPsi(old, psi) == CAdd(old, psi)

\* idxm and idxM before truncation (686-688): floor and ceil of the box of
\* the atom shifted to the image im
idxm(geo, im) ==
    [a \in Axes |-> FloorDiv(idx_mm(geo, im.ia, 0)[a] + im.isc[a] * geom_shape(a), 1)]
idxM(geo, im) ==
    [a \in Axes |-> CeilDiv(idx_mm(geo, im.ia, 1)[a] + im.isc[a] * geom_shape(a), 1) + 1]

\* the fast check of lines 691-694: the box lies outside the grid
OutsideGrid(geo, im) ==
    \E a \in Axes : idxm(geo, im)[a] >= GridShape[a] \/ idxM(geo, im)[a] <= 0

\* the truncation of lines 697-708
TruncLow(x) == IF x < 0 THEN 0 ELSE x
TruncHigh_keeps(x, n) == x

TruncHigh(x, n) == IF x > n THEN n ELSE x

\* the index box grid.grid[idxm[0]:idxM[0], ...] of the write on line 767
Box(geo, im) ==
    [lo |-> [a \in Axes |-> TruncLow(idxm(geo, im)[a])],
     hi |-> [a \in Axes |-> TruncHigh(idxM(geo, im)[a], GridShape[a])]]

\* the image reaches the write of line 767: its atom has a wave-function
\* (680-684) and its box meets the grid (691-694)
Writes(geo, im) == maxR(geo.atom[im.ia]) > 0 /\ ~OutsideGrid(geo, im)

\* one pass of the atom loop (675-773): the image im of atom ia adds its
\* orbitals to the points of its index box
AtomStep(geo, vv, im, gg) ==
    LET atom == geo.atom[im.ia]
        R    == maxR(atom)
        xyz  == ImageXYZ(geo, im.ia, im.isc)
        lo   == Box(geo, im).lo
        hi   == Box(geo, im).hi
        psi(c) == IF Dist2(c, xyz) <= R * R
                  THEN OrbitalLoop(atom, 1, a2o(geo, im.ia), vv, Dist2(c, xyz), R)
                  ELSE CZero
    IN  IF R <= 0 THEN gg
        ELSE IF OutsideGrid(geo, im) THEN gg
        ELSE [c \in Cells |->
                IF \A a \in Axes : lo[a] <= c[a] /\ c[a] < hi[a]
                THEN AddPsi(gg[c], psi(c)) ELSE gg[c]]

AtomWarnings_silent(geo, im) == {}

\* the warnings of one pass: for an atom without wave-function (681-682),
\* else, when its box meets the grid, for every orbital group without
\* wave-function (736-737); j is the first orbital of the group, 0 for the atom
AtomWarnings(geo, im) ==
    LET atom == geo.atom[im.ia]
    IN  IF maxR(atom) <= 0 THEN { [what |-> "atom", im |-> im, j |-> 0] }
        ELSE IF OutsideGrid(geo, im) THEN {}
        ELSE { [what |-> "orbital", im |-> im, j |-> j] :
                 j \in { x \in 1..Len(atom) :
                           /\ atom[x].R <= 0
                           /\ (x = 1 \/ atom[x - 1].R # atom[x].R) } }

\* the warning of line 524 when no geometry is passed
NoImage == [ia |-> 0, isc |-> [a \in Axes |-> 0]]
GeometryWarning(geoArg) ==
    IF geoArg = None THEN { [what |-> "geometry", im |-> NoImage, j |-> 0] } ELSE {}

\* the atom loop; the images add to the grid, so their order does not show
RECURSIVE AtomLoop(_, _, _, _)
AtomLoop(geo, vv, images, gg) ==
    IF images = {} THEN gg
    ELSE LET im == CHOOSE x \in images : TRUE
         IN  AtomLoop(geo, vv, images \ {im}, AtomStep(geo, vv, im, gg))

\* coefficient arrays
Vec1(cplx, data) == [complex |-> cplx, ndim |-> 1, rows |-> <<data>>]
Vec2(cplx, rows) == [complex |-> cplx, ndim |-> 2, rows |-> rows]

\* v.sum(0) of a 2-D array (529-530); a 1-D array is left alone
SumRows(va) ==
    IF va.ndim = 2
    THEN [i \in 1..Len(va.rows[1]) |-> CSum([r \in 1..Len(va.rows) |-> va.rows[r][i]])]
    ELSE va.rows[1]

\* the k-point (545-548) in units of 1e-7: omitted, k becomes a NaN and no
\* comparison with it holds; kl > 1e-6 is compared on the squares
KTol2 == 100
HasK_never(kk) == FALSE

HasK(kk) == kk # NoneM /\ SumSeq([a \in 1..Len(kk) |-> kk[a] * kk[a]]) > KTol2

\* grid.set_geometry when the grid has none and an atom lies in its cell
\* (643-650)
Attached(g, name) ==
    IF g.geometry = None /\ within_inf(Geom(name), 0) # {} THEN name ELSE g.geometry

\* v.reshape(-1, 2)[:, spinor] (535, 540): the entries 2 i + spinor
Project_firstHalf(v1, sx) == SubSeq(v1, sx * (Len(v1) \div 2) + 1, (sx + 1) * (Len(v1) \div 2))

Project(v1, sx) == Slice(v1, sx, 2)

\* is_complex and not np.iscomplexobj(grid.grid) (556-557); has_k is false
\* where the test is made
TypeConflict_never(cplx, gcplx) == FALSE

TypeConflict(cplx, gcplx) == cplx /\ ~gcplx

\* the grid when one of the raise statements of lines 526, 543, 550 and 558
\* executes: lines 522-558 read grid.geometry and grid.grid and assign to
\* neither; set_geometry (650) and the writes (767) come after them
GridAtRaise_attachedFirst(g, name) ==
    IF name = None THEN g ELSE [g EXCEPT !.geometry = Attached(g, name)]

GridAtRaise(g, name) == g

\* wavefunction: the exception that escapes or "ok", the grid afterwards, the
\* warnings issued and the index boxes written to
wavefunction(va, g, geoArg, kk, sx, sp) ==
    LET name == IF geoArg = None THEN g.geometry ELSE geoArg
        fail(kind) == [ret |-> Err(kind), grid |-> GridAtRaise(g, name),
                       warn |-> GeometryWarning(geoArg), boxes |-> {}]
    IN  IF name = None THEN fail("SislError")
        ELSE
        LET geo     == Geom(name)
            v1      == SumRows(va)
            reshape == IF sp = None THEN Len(v1) \div 2 = no(geo)
                       ELSE SpinKind(sp) > POLARIZED
        IN  IF reshape /\ Len(v1) % 2 # 0 THEN fail("ValueError")
            ELSE
            LET v2 == IF reshape THEN Project(v1, sx) ELSE v1
            IN  IF Len(v2) # no(geo) THEN fail("ValueError")
                ELSE IF HasK(kk) THEN fail("NotImplementedError")
                ELSE IF TypeConflict(va.complex, g.complex) THEN fail("SislError")
                ELSE
                LET images == within_inf(geo, GeometryMaxR(geo))
                IN  [ret   |-> Ok(<< >>),
                     grid  |-> [grid     |-> AtomLoop(geo, v2, images, g.grid),
                                complex  |-> g.complex,
                                geometry |-> Attached(g, name)],
                     warn  |-> GeometryWarning(geoArg)
                                 \cup UNION { AtomWarnings(geo, im) : im \in images },
                     boxes |-> { [im |-> im, box |-> Box(geo, im)] :
                                   im \in { x \in images : Writes(geo, x) } }]

(***************************************************************************)
(* gotSileGULP.read_dynamical_matrix (got.py 166-290)                      *)
(*                                                                         *)
(* A sparse matrix is a record: some tells a matrix from None, data is the *)
(* array of its stored entries (integers).  What the files hold is a       *)
(* record: geometry, whether read_geometry finds cell and coordinates;     *)
(* dyn, the block under the key of the dynamical matrix in the output      *)
(* file, if there is one; fc, the file FORCE_CONSTANTS_2ND: whether it     *)
(* exists, its number of rows, its entries.  geom.no is GeomNo, the mass   *)
(* of every atom Mass.                                                     *)
(***************************************************************************)
NoMatrix     == [some |-> FALSE, data |-> << >>]
Matrix(data) == [some |-> TRUE, data |-> data]

GeomNo == 3
Mass   == 4

\* line 183: kwargs.pop('order', ['got', 'FC'])
DefaultOrder == <<"got", "FC">>

\* the order argument: given tells a list from an omitted argument
NoOrder      == [given |-> FALSE, names |-> << >>]
Given(names) == [given |-> TRUE, names |-> names]

ResolvedOrder(ord) == IF ord.given THEN ord.names ELSE DefaultOrder

\* f.lower() (185) for the names of the model
Lower(name) ==
    CASE name = "FC"  -> "fc"
      [] name = "GOT" -> "got"
      [] OTHER        -> name

\* the names for which the class has a method _r_dynamical_matrix_<name>
Readers == {"got", "fc"}

\* lines 194-269: None when the key is not found (205-212); else the block,
\* without the entries whose mass-weighted size is below the cutoff
\* (263-267).  The entries are in units of an eighth of the cutoff divided
\* by the mass: an entry is below the cutoff when its size is below
\* CutoffEntry
CutoffEntry == 8 \div Mass

Abs(x) == IF x < 0 THEN -x ELSE x

KeepEntry(x) == Abs(x) >= CutoffEntry

_r_dynamical_matrix_got(fl) ==
    IF ~fl.dyn.some THEN NoMatrix
    ELSE Matrix(SelectSeq(fl.dyn.data, KeepEntry))

\* lines 271-290: None when the file is missing (275-276) or has another
\* number of rows than the geometry has orbitals (280-282); else the force
\* constants times 1 / sqrt(mass_row * mass_col)
_r_dynamical_matrix_fc(fl) ==
    IF ~fl.fc.exists THEN NoMatrix
    ELSE IF fl.fc.no # GeomNo THEN NoMatrix
    ELSE Matrix([e \in 1..Len(fl.fc.data) |-> fl.fc.data[e] \div Mass])

Reader(name, fl) ==
    IF name = "got" THEN _r_dynamical_matrix_got(fl) ELSE _r_dynamical_matrix_fc(fl)

\* lines 188-189: v.data *= scale ** 2, scale ** 2 in parts of a million
\* (hbar^2 / (Ang^2 eV amu) = 0.004180...)
ScaleSq == 4180

ScaleUnits_twice(m) ==
    Matrix([e \in 1..Len(m.data) |-> m.data[e] * ScaleSq * ScaleSq])

ScaleUnits(m) == Matrix([e \in 1..Len(m.data) |-> m.data[e] * ScaleSq])

(***************************************************************************)
(* Specification of the DOS engine: the inputs are drawn by the initial    *)
(* condition, the action applies the function.                             *)
(***************************************************************************)
\* the arguments of the engines a specification does not call
NoParent == [has_orthogonal |-> FALSE, orthogonal |-> FALSE,
             has_dSk |-> FALSE, has_dHk |-> FALSE]
NoDOSArgs  == E = << >> /\ distribution = "hat"
NoPDOSArgs == S = NoneM /\ spin = None
NoVelArgs  == /\ ndim = 2 /\ dHk = NoneM /\ dSk = NoneM /\ degenerate = << >>
              /\ parent = NoParent /\ is_StateC = FALSE
NoInfo == [k |-> NoneM, gauge |-> None]
NoSkArgs == is_SparseOrbitalBZSpin = FALSE /\ info = NoInfo /\ format = "csr"
NoFile   == [geometry |-> FALSE, dyn |-> NoMatrix,
             fc |-> [exists |-> FALSE, no |-> 0, data |-> << >>]]
NoGotArgs == order = NoOrder /\ file = NoFile /\ tried = << >> /\ f_pos = 0
NoV == Vec1(FALSE, << >>)
NoWaveArgs ==
    /\ v = NoV /\ k = NoneM /\ spinor = 0 /\ geometry = None
    /\ grid = [grid |-> << >>, complex |-> FALSE, geometry |-> None]
    /\ grid0 = << >> /\ grid_pre = grid /\ calls = << >>


InitDOS ==
    /\ op = "DOS" /\ pc = "call"
    /\ ret = NoRet /\ NoWaveArgs /\ NoSkArgs /\ NoGotArgs
    /\ E \in SeqsOf(Energies, 0, MaxE)
    /\ eig \in SeqsOf(Energies, 0, MaxStates)
    /\ distribution \in Distributions
    /\ eig_v = << >> /\ NoPDOSArgs /\ NoVelArgs

CallDOS ==
    /\ op = "DOS" /\ pc = "call"
    /\ ret' = DOS(E, eig, distribution)
    /\ pc' = "done"
    /\ UNCHANGED <<op, dosVars, pdosVars, velVars, skVars, gotVars, wfVars>>

SpecDOS == InitDOS /\ [][CallDOS]_vars

(***************************************************************************)
(* Specification of the PDOS engine.  The eigenpairs are those of one      *)
(* k-point: one eigenvalue per state row, in the solver's ascending order. *)
(* State rows and overlaps are drawn from fixed sets per width: rows with  *)
(* real, imaginary and mixed entries, normalised and not; overlaps that    *)
(* are Hermitian, the identity and not.  Width 2 and 4 are one and two     *)
(* spinor orbitals; widths 1 and 3 are odd.                                *)
(***************************************************************************)
Widths == 1..4

StateRows(n) ==
    CASE n = 1 -> { <<C(1,0)>>, <<C(0,1)>>, <<C(2,0)>> }
      [] n = 2 -> { <<C(1,0), C(0,0)>>, <<C(0,0), C(0,1)>>, <<C(1,0), C(0,1)>> }
      [] n = 3 -> { <<C(1,0), C(0,0), C(0,0)>>, <<C(1,0), C(0,1), C(-1,0)>> }
      [] n = 4 -> { <<C(1,0), C(0,0), C(0,0), C(0,0)>>,
                    <<C(0,0), C(0,0), C(0,0), C(0,1)>>,
                    <<C(1,0), C(0,1), C(0,0), C(-1,0)>> }

Overlaps(w) ==
    CASE w = 1 -> { << <<C(1,0)>> >>, << <<C(2,0)>> >> }
      [] w = 2 -> { << <<C(1,0), C(0,0)>>, <<C(0,0), C(1,0)>> >>,
                    << <<C(2,0), C(1,0)>>, <<C(1,0), C(1,0)>> >>,
                    << <<C(1,0), C(0,1)>>, <<C(0,-1), C(2,0)>> >> }
      [] w = 3 -> { << <<C(1,0), C(0,0), C(0,0)>>,
                       <<C(0,0), C(1,0), C(0,0)>>,
                       <<C(0,0), C(0,0), C(1,0)>> >> }
      [] w = 4 -> { << <<C(1,0), C(0,0), C(0,0), C(0,0)>>,
                       <<C(0,0), C(1,0), C(0,0), C(0,0)>>,
                       <<C(0,0), C(0,0), C(1,0), C(0,0)>>,
                       <<C(0,0), C(0,0), C(0,0), C(1,0)>> >>,
                    << <<C(2,0), C(0,0), C(1,0), C(0,0)>>,
                       <<C(0,0), C(2,0), C(0,0), C(1,0)>>,
                       <<C(1,0), C(0,0), C(1,0), C(0,0)>>,
                       <<C(0,0), C(1,0), C(0,0), C(1,0)>> >> }

\* the overlap arguments given with states of width n: omitted, of the
\* width of the states, of half their width, and of a width that fits neither
OverlapArgs(n) ==
    {NoneM} \cup Overlaps(n)
            \cup (IF n % 2 = 0 THEN Overlaps(n \div 2) ELSE {})
            \cup (IF n = 3 THEN Overlaps(1) ELSE Overlaps(3))

SpinArgs == {None} \cup SpinKinds

\* ascending eigenvalue sequences of length ns
SortedEigs(ns) ==
    {e \in [1..ns -> Energies] : \A i \in 1..(ns - 1) : e[i] <= e[i + 1]}

\* the query grid: the energies 0, 1, ... in increasing order, MaxE of them
\* when there are that many
QueryGrids == { [j \in 1..Min(MaxE, MaxEnergy + 1) |-> j - 1] }

InitPDOS ==
    /\ op = "PDOS" /\ pc = "call"
    /\ ret = NoRet /\ NoWaveArgs /\ NoSkArgs /\ NoGotArgs
    /\ E \in QueryGrids
    /\ distribution \in Distributions
    /\ \E ns \in 1..MaxStates, n \in Widths :
          /\ eig \in SortedEigs(ns)
          /\ eig_v \in [1..ns -> StateRows(n)]
          /\ S \in OverlapArgs(n)
    /\ spin \in SpinArgs
    /\ NoVelArgs

CallPDOS ==
    /\ op = "PDOS" /\ pc = "call"
    /\ ret' = PDOS(E, eig, eig_v, S, distribution, spin)
    /\ pc' = "done"
    /\ UNCHANGED <<op, dosVars, pdosVars, velVars, skVars, gotVars, wfVars>>

SpecPDOS == InitPDOS /\ [][CallPDOS]_vars

\* spin_moment: spinor rows (up, down per orbital), among them rows without
\* spin-down amplitude, and rows of odd width
SpinRows(n) ==
    CASE n = 1 -> { <<C(1,0)>> }
      [] n = 2 -> { <<C(1,0), C(0,0)>>, <<C(0,2), C(0,0)>>,
                    <<C(0,0), C(0,1)>>, <<C(1,0), C(0,1)>> }
      [] n = 3 -> { <<C(1,0), C(0,0), C(0,1)>> }
      [] n = 4 -> { <<C(1,0), C(0,0), C(0,1), C(0,0)>>,
                    <<C(1,0), C(0,0), C(2,0), C(0,0)>>,
                    <<C(0,0), C(0,0), C(0,0), C(0,1)>>,
                    <<C(1,0), C(0,1), C(0,0), C(-1,0)>>,
                    <<C(1,0), C(1,0), C(0,1), C(2,0)>> }

InitSpinMoment ==
    /\ op = "spin_moment" /\ pc = "call"
    /\ ret = NoRet /\ NoWaveArgs /\ NoSkArgs /\ NoGotArgs
    /\ NoDOSArgs /\ eig = << >> /\ spin = None
    /\ dHk = NoneM /\ dSk = NoneM /\ degenerate = << >>
    /\ parent = NoParent /\ is_StateC = FALSE
    /\ \E ns \in 1..MaxStates, n \in Widths :
          /\ eig_v \in [1..ns -> SpinRows(n)]
          /\ S \in OverlapArgs(n)
          /\ ndim \in (IF ns = 1 THEN {1, 2} ELSE {2})

CallSpinMoment ==
    /\ op = "spin_moment" /\ pc = "call"
    /\ ret' = spin_moment(eig_v, ndim, S)
    /\ pc' = "done"
    /\ UNCHANGED <<op, dosVars, pdosVars, velVars, skVars, gotVars, wfVars>>

SpecSpinMoment == InitSpinMoment /\ [][CallSpinMoment]_vars

(***************************************************************************)
(* Specification of the velocity engine and of the State/StateC accessor.  *)
(* dHk stacks the three directional derivatives by row (row 3 nu + alpha is *)
(* row nu of dH/dk_alpha); each derivative is Hermitian.  Besides the       *)
(* stacked matrices the inputs hold the single-direction square blocks and *)
(* matrices of every other row count up to 3 n + 1.  A degenerate group is *)
(* a run of states of one energy, already decoupled along each axis (the   *)
(* restricted operators are diagonal), which is the case in which eigh's   *)
(* eigenvectors are exact in integers.                                     *)
(***************************************************************************)
VelWidths == {1, 2}

VelRows(n) ==
    CASE n = 1 -> { <<C(1,0)>>, <<C(0,1)>>, <<C(2,0)>> }
      [] n = 2 -> { <<C(1,0), C(0,0)>>, <<C(0,0), C(0,1)>>, <<C(1,0), C(0,1)>> }

\* triples (dH/dk_x, dH/dk_y, dH/dk_z) of Hermitian blocks
HTriples(n) ==
    CASE n = 1 ->
            { << << <<C(1,0)>> >>, << <<C(2,0)>> >>, << <<C(-1,0)>> >> >>,
              << << <<C(2,0)>> >>, << <<C(1,0)>> >>, << <<C(1,0)>> >> >>,
              << << <<C(0,0)>> >>, << <<C(-1,0)>> >>, << <<C(2,0)>> >> >> }
      [] n = 2 ->
            { << << <<C(1,0), C(0,0)>>, <<C(0,0), C(2,0)>> >>,
                 << <<C(1,0), C(0,0)>>, <<C(0,0), C(-1,0)>> >>,
                 << <<C(2,0), C(0,0)>>, <<C(0,0), C(1,0)>> >> >>,
              << << <<C(1,0), C(0,0)>>, <<C(0,0), C(2,0)>> >>,
                 << <<C(1,0), C(0,0)>>, <<C(0,0), C(-1,0)>> >>,
                 << <<C(1,0), C(0,0)>>, <<C(0,0), C(1,0)>> >> >>,
              << << <<C(0,0), C(1,0)>>, <<C(1,0), C(0,0)>> >>,
                 << <<C(1,0), C(0,0)>>, <<C(0,0), C(2,0)>> >>,
                 << <<C(0,0), C(0,1)>>, <<C(0,-1), C(0,0)>> >> >>,
              << << <<C(1,0), C(0,1)>>, <<C(0,-1), C(2,0)>> >>,
                 << <<C(0,0), C(1,0)>>, <<C(1,0), C(0,0)>> >>,
                 << <<C(1,0), C(0,0)>>, <<C(0,0), C(-1,0)>> >> >> }

\* triples (dS/dk_x, dS/dk_y, dS/dk_z) of Hermitian blocks
STriples(n) ==
    CASE n = 1 ->
            { << << <<C(1,0)>> >>, << <<C(0,0)>> >>, << <<C(-1,0)>> >> >> }
      [] n = 2 ->
            { << << <<C(1,0), C(0,0)>>, <<C(0,0), C(0,0)>> >>,
                 << <<C(0,0), C(0,0)>>, <<C(0,0), C(1,0)>> >>,
                 << <<C(1,0), C(0,0)>>, <<C(0,0), C(-1,0)>> >> >>,
              << << <<C(0,0), C(0,1)>>, <<C(0,-1), C(0,0)>> >>,
                 << <<C(1,0), C(0,0)>>, <<C(0,0), C(1,0)>> >>,
                 << <<C(0,0), C(1,0)>>, <<C(1,0), C(0,0)>> >> >> }

\* the stacked matrix of a triple: row 3 nu + alpha (0-based) is row nu of block alpha
Stack(tr) == [q \in 1..(3 * Len(tr[1])) |-> tr[((q - 1) % 3) + 1][((q - 1) \div 3) + 1]]

\* the first r rows of the stacked matrix repeated: every row count 1..3n+1
Rows(tr, r) == [q \in 1..r |-> Stack(tr)[((q - 1) % (3 * Len(tr[1]))) + 1]]

RowCounts(n) == 1..(3 * n + 1)

\* runs of states of one energy, as index lists
Groups(energy) ==
    { [x \in 1..(b - a + 1) |-> a + x - 1] :
        <<a, b>> \in { ab \in (1..Len(energy)) \X (1..Len(energy)) :
                         /\ ab[1] <= ab[2]
                         /\ \A x \in ab[1]..ab[2] : energy[x] = energy[ab[1]] } }

DegenerateArgs(energy) ==
    { << >> } \cup { <<g>> : g \in Groups(energy) }
              \cup { <<g, h>> : <<g, h>> \in
                       { gh \in Groups(energy) \X Groups(energy) :
                           gh[1][Len(gh[1])] < gh[2][1] } }

\* the operators of the three axes are diagonal on the group
Decoupled(state, Hk, energy, Sk, deg) ==
    \A al \in 0..2 :
        LET M  == IF Sk = NoneM THEN Slice(Hk, al, 3)
                  ELSE MatSubScaled(Slice(Hk, al, 3), energy[deg[1]], Slice(Sk, al, 3))
            vv == Restricted(RowsAt(state, deg), M)
        IN  \A a, b \in 1..Len(deg) : a # b => vv[a][b] = CZero

VelocityInputsOk(state, Hk, energy, Sk, deglist) ==
    NRows(Hk) = 3 * NCols(state) =>
        \A gi \in 1..Len(deglist) : Decoupled(state, Hk, energy, Sk, deglist[gi])

InitVelocity ==
    /\ op = "velocity" /\ pc = "call"
    /\ ret = NoRet /\ NoWaveArgs /\ NoSkArgs /\ NoGotArgs
    /\ NoDOSArgs /\ NoPDOSArgs
    /\ parent = NoParent /\ is_StateC = FALSE
    /\ \E ns \in 1..MaxStates, n \in VelWidths,
          r \in UNION { RowCounts(w) : w \in VelWidths } :
          /\ r \in RowCounts(n)
          /\ eig \in SortedEigs(ns)
          /\ eig_v \in [1..ns -> VelRows(n)]
          /\ ndim \in (IF ns = 1 THEN {1, 2} ELSE {2})
          /\ \/ r = n /\ dHk \in { tr[1] : tr \in HTriples(n) }
             \/ r = 3 * n /\ dHk \in { Stack(tr) : tr \in HTriples(n) }
             \/ r \notin {n, 3 * n} /\ dHk \in { Rows(tr, r) : tr \in STriples(n) }
          /\ dSk \in {NoneM} \cup { Rows(tr, r) : tr \in STriples(n) }
    /\ degenerate \in DegenerateArgs(eig)
    /\ VelocityInputsOk(eig_v, dHk, eig, dSk, degenerate)

CallVelocity ==
    /\ op = "velocity" /\ pc = "call"
    /\ ret' \in velocity(eig_v, ndim, dHk, eig, dSk, degenerate)
    /\ eig_v' = StateAfterVelocity(eig_v, degenerate)
    /\ pc' = "done"
    /\ UNCHANGED <<op, dosVars, S, spin, velVars, skVars, gotVars, wfVars>>

\* the accessor: the parent's dHk and dSk are the stacked matrices at the
\* state's k-point
InitStateVelocity ==
    /\ op = "State.velocity" /\ pc = "call"
    /\ ret = NoRet /\ NoWaveArgs /\ NoSkArgs /\ NoGotArgs
    /\ NoDOSArgs /\ NoPDOSArgs
    /\ ndim = 2
    /\ parent \in [has_orthogonal : BOOLEAN, orthogonal : BOOLEAN,
                   has_dSk : BOOLEAN, has_dHk : BOOLEAN]
    /\ parent.orthogonal => parent.has_orthogonal
    /\ is_StateC \in BOOLEAN
    /\ \E ns \in 1..MaxStates :
          /\ eig \in SortedEigs(ns)
          /\ eig_v \in [1..ns -> VelRows(2)]
    /\ dHk \in { Stack(tr) : tr \in HTriples(2) }
    /\ dSk \in { Stack(tr) : tr \in STriples(2) }
    /\ degenerate = Degenerate(eig)
    /\ VelocityInputsOk(eig_v, dHk, eig,
                        IF parent.orthogonal THEN NoneM ELSE dSk, degenerate)

CallStateVelocity ==
    /\ op = "State.velocity" /\ pc = "call"
    /\ ret' \in State_velocity(parent, is_StateC, eig_v, eig, dHk, dSk)
    /\ eig_v' = StateAfterVelocity(eig_v, degenerate)
    /\ pc' = "done"
    /\ UNCHANGED <<op, dosVars, S, spin, velVars, skVars, gotVars, wfVars>>

SpecVelocity == (InitVelocity \/ InitStateVelocity)
                /\ [][CallVelocity \/ CallStateVelocity]_vars

\* State.Sk: a parent that is or is not a SparseOrbitalBZSpin (which has
\* orthogonal), info with or without k and gauge, states of width 1..4
KPoints == { <<0, 0, 0>>, <<1, 0, 0>>, <<0, 1, 2>> }
Gauges  == { "R", "r" }
Formats == { "csr", "array" }

InitStateSk ==
    /\ op = "State.Sk" /\ pc = "call"
    /\ ret = NoRet /\ NoWaveArgs /\ NoGotArgs
    /\ NoDOSArgs /\ eig = << >> /\ S = NoneM
    /\ ndim = 2 /\ dHk = NoneM /\ dSk = NoneM /\ degenerate = << >>
    /\ is_StateC = FALSE
    /\ is_SparseOrbitalBZSpin \in BOOLEAN
    /\ parent \in [has_orthogonal : BOOLEAN, orthogonal : BOOLEAN,
                   has_dSk : {FALSE}, has_dHk : {FALSE}]
    /\ parent.orthogonal => parent.has_orthogonal
    /\ is_SparseOrbitalBZSpin => parent.has_orthogonal
    /\ info \in [k : {NoneM} \cup KPoints, gauge : {None} \cup Gauges]
    /\ format \in Formats
    /\ \E n \in Widths : eig_v = << [q \in 1..n |-> C(1, 0)] >>
    /\ spin \in SpinArgs

CallStateSk ==
    /\ op = "State.Sk" /\ pc = "call"
    /\ ret' = State_Sk(parent, is_SparseOrbitalBZSpin, info, format, NCols(eig_v), spin)
    /\ pc' = "done"
    /\ UNCHANGED <<op, dosVars, pdosVars, velVars, skVars, gotVars, wfVars>>

SpecStateSk == InitStateSk /\ [][CallStateSk]_vars

(***************************************************************************)
(* Specification of wavefunction.  One session works on one grid: the      *)
(* geometry argument, the k-point, the spinor and the spin configuration   *)
(* are those of the state object and stay as they are, each call brings    *)
(* its coefficients.  calls records every call made (its coefficients and  *)
(* how it ended), grid0 the amplitudes the session started from.  An       *)
(* exception ends the session: it propagates to the caller.                *)
(***************************************************************************)
MaxCalls == 2

\* the k-points, in units of 1e-7: omitted, Gamma, one of norm below 1e-6
\* and one of norm above it
KArgs == {NoneM, <<0, 0, 0>>, <<7, 7, 0>>, <<7, 8, 0>>}

WaveSpinArgs == {None, "polarized", "non-collinear"}

Ramp(n, first, step) == [i \in 1..n |-> C(first + step * (i - 1), 0)]

\* coefficient arrays for a geometry of n orbitals: of length n (real,
\* complex and 2-D), of length 2 n, and of the lengths 2 n + 1 and 3 n + 2
CoeffArgs(n) ==
    { Vec1(FALSE, Ramp(n, -1, 2)),
      Vec1(TRUE, [i \in 1..n |-> C(1, i)]),
      Vec2(FALSE, <<Ramp(n, 1, 1), Ramp(n, 2, -3)>>),
      Vec1(FALSE, Ramp(2 * n, 1, 1)),
      Vec1(FALSE, Ramp(2 * n + 1, 1, 1)),
      Vec1(FALSE, Ramp(3 * n + 2, 1, 1)) }

\* the amplitudes a grid starts with: freshly zeroed, or already filled
GridInits == { [c \in Cells |-> CZero], [c \in Cells |-> C(c[1] + 1, 0)] }

\* the geometry the session is about, if there is one
SessionGeometry == IF geometry # None THEN geometry ELSE grid.geometry

InitWavefunction ==
    /\ op = "wavefunction" /\ pc = "call"
    /\ ret = NoRet /\ NoSkArgs /\ NoGotArgs
    /\ NoDOSArgs /\ eig = << >> /\ eig_v = << >> /\ S = NoneM /\ NoVelArgs
    /\ \E name \in GeometryNames :
          /\ geometry \in {None, name}
          /\ grid \in [grid : GridInits, complex : BOOLEAN, geometry : {None, name}]
    /\ k \in KArgs
    /\ spinor \in {0, 1}
    /\ spin \in WaveSpinArgs
    /\ v = NoV
    /\ grid0 = grid.grid
    /\ grid_pre = grid
    /\ calls = << >>

CallWavefunction ==
    /\ op = "wavefunction" /\ pc = "call"
    /\ \E va \in CoeffArgs(IF SessionGeometry = None THEN 1
                           ELSE no(Geom(SessionGeometry))) :
          LET out == wavefunction(va, grid, geometry, k, spinor, spin)
          IN  /\ v' = va
              /\ ret' = out.ret
              /\ grid' = out.grid
              /\ grid_pre' = grid
              /\ calls' = Append(calls, [v |-> va, kind |-> out.ret.kind,
                                        warn |-> out.warn, boxes |-> out.boxes])
              /\ pc' = IF out.ret.kind = "ok" /\ Len(calls) + 1 < MaxCalls
                       THEN "call" ELSE "done"
    /\ UNCHANGED <<op, dosVars, pdosVars, velVars, skVars, gotVars, geometry, k, spinor, grid0>>

SpecWavefunction == InitWavefunction /\ [][CallWavefunction]_vars

\* the same sessions, under the name the claims about the index boxes and
\* the deposits of a call are checked with
SpecProjection == InitWavefunction /\ [][CallWavefunction]_vars

\* read_dynamical_matrix: the order arguments (omitted, empty, one reader,
\* both in either order, another case of the letters, a reader twice, a
\* name without a method), and the files
OrderArgs ==
    { NoOrder } \cup
    { Given(names) : names \in
        { << >>, <<"got">>, <<"FC">>, <<"got", "FC">>, <<"FC", "got">>,
          <<"fc", "GOT">>, <<"got", "got", "FC">>, <<"got", "dat">>,
          <<"dat", "got">> } }

DynBlocks == { NoMatrix, Matrix(<<5, -1, 0, 2>>), Matrix(<<1, -1>>) }

FCFiles ==
    { [exists |-> FALSE, no |-> 0, data |-> << >>],
      [exists |-> TRUE, no |-> GeomNo, data |-> <<8, -4>>],
      [exists |-> TRUE, no |-> GeomNo + 3, data |-> <<8, -4, 12>>] }

InitReadDyn ==
    /\ op = "read_dynamical_matrix" /\ pc = "call"
    /\ ret = NoRet /\ NoWaveArgs /\ NoSkArgs
    /\ NoDOSArgs /\ eig = << >> /\ eig_v = << >> /\ NoPDOSArgs /\ NoVelArgs
    /\ order \in OrderArgs
    /\ file \in [geometry : BOOLEAN, dyn : DynBlocks, fc : FCFiles]
    /\ tried = << >>
    /\ f_pos = 0

\* lines 181-183: geom = self.read_geometry(**kwargs), which raises
\* ValueError when the file holds no cell or coordinates (96-142), and the
\* order is taken from the keywords
ReadGeometry ==
    /\ op = "read_dynamical_matrix" /\ pc = "call"
    /\ IF file.geometry
       THEN /\ pc' = "loop" /\ f_pos' = 1
            /\ UNCHANGED ret
       ELSE /\ pc' = "done" /\ ret' = Err("ValueError")
            /\ UNCHANGED f_pos
    /\ UNCHANGED <<op, dosVars, pdosVars, velVars, skVars, wfVars, order, file, tried>>

\* lines 184-190: one pass of the loop.  getattr raises AttributeError for
\* a name without a method, before anything is called; a reader that yields
\* a matrix ends the call with the scaled matrix
TryReader ==
    /\ op = "read_dynamical_matrix" /\ pc = "loop"
    /\ f_pos <= Len(ResolvedOrder(order))
    /\ LET name == Lower(ResolvedOrder(order)[f_pos])
       IN  IF name \notin Readers
           THEN /\ ret' = Err("AttributeError") /\ pc' = "done"
                /\ UNCHANGED <<tried, f_pos>>
           ELSE /\ tried' = Append(tried, name)
                /\ IF Reader(name, file).some
                   THEN /\ ret' = Ok(ScaleUnits(Reader(name, file)))
                        /\ pc' = "done"
                        /\ UNCHANGED f_pos
                   ELSE /\ f_pos' = f_pos + 1
                        /\ UNCHANGED <<ret, pc>>
    /\ UNCHANGED <<op, dosVars, pdosVars, velVars, skVars, wfVars, order, file>>

\* line 192: return None after the loop
ReturnNone ==
    /\ op = "read_dynamical_matrix" /\ pc = "loop"
    /\ f_pos > Len(ResolvedOrder(order))
    /\ ret' = Ok(NoMatrix)
    /\ pc' = "done"
    /\ UNCHANGED <<op, dosVars, pdosVars, velVars, skVars, wfVars, gotVars>>

SpecReadDyn == InitReadDyn /\ [][ReadGeometry \/ TryReader \/ ReturnNone]_vars

Init == InitDOS \/ InitPDOS \/ InitSpinMoment \/ InitVelocity \/ InitStateVelocity
           \/ InitStateSk \/ InitWavefunction \/ InitReadDyn
Next == CallDOS \/ CallPDOS \/ CallSpinMoment \/ CallVelocity \/ CallStateVelocity
           \/ CallStateSk \/ CallWavefunction
           \/ ReadGeometry \/ TryReader \/ ReturnNone
Spec == Init /\ [][Next]_vars

(***************************************************************************)
(* C1.  For every non-empty eig, every E and every D, DOS(E, eig, D)       *)
(* returns a sequence as long as E whose j-th entry is the sum over all    *)
(* eigenvalues i of D(E[j] - eig[i]).                                      *)
(***************************************************************************)
RECURSIVE SumOver(_, _, _, _)
SumOver(idx, d, e, eg) ==
    IF idx = {} THEN 0
    ELSE LET i == CHOOSE x \in idx : TRUE
         IN  Dist(d, e - eg[i]) + SumOver(idx \ {i}, d, e, eg)

C1_DOSIsSumOverEigenvalues ==
    (pc = "done" /\ Len(eig) > 0) =>
        /\ ret.kind = "ok"
        /\ Len(ret.val) = Len(E)
        /\ \A j \in 1..Len(E) :
               ret.val[j] = SumOver(1..Len(eig), distribution, E[j], eig)

C1_Witness ==
    /\ pc = "done" /\ ret.kind = "ok"
    /\ Len(eig) = 2 /\ Len(E) = 2
    /\ eig[1] # eig[2] /\ E[1] # E[2]

(***************************************************************************)
(* Reference quantities of the claims about PDOS.                          *)
(***************************************************************************)
\* the spin path PDOS takes for the arguments it was called with
PathIsCollinear ==
    IF spin = None
    THEN ~(S # NoneM /\ NCols(S) = NCols(eig_v) \div 2)
    ELSE spin \in {"unpolarized", "polarized"}

\* Re <psi| S |psi>, the identity standing in for an omitted overlap
BraKet(psi, M, phi) ==
    CSum([a \in 1..Len(psi) |->
        CMul(CConj(psi[a]), CSum([b \in 1..Len(phi) |-> CMul(M[a][b], phi[b])]))])

Identity(n) ==
    [a \in 1..n |-> [b \in 1..n |-> IF a = b THEN C(1,0) ELSE CZero]]

SNorm(psi, Sarg) ==
    Re(BraKet(psi, IF Sarg = NoneM THEN Identity(Len(psi)) ELSE Sarg, psi))

\* the sum of a collinear PDOS over the orbital axis, at query energy j
OrbitalSum(P, j) == SumSeq([q \in 1..Len(P) |-> P[q][j]])

AllNormalised == \A i \in 1..Len(eig_v) : SNorm(eig_v[i], S) = 1

IsShape3(val, a, b, c) ==
    /\ Len(val) = a
    /\ \A x \in 1..a : /\ Len(val[x]) = b
                       /\ \A y \in 1..b : Len(val[x][y]) = c

C3_HalfWidthOverlapSelectsNonCollinear ==
    (pc = "done" /\ spin = None /\ S # NoneM /\ 2 * NCols(S) = NCols(eig_v)) =>
        /\ ret.kind = "ok"
        /\ IsShape3(ret.val, 4, NCols(eig_v) \div 2, Len(E))
        /\ ret = PDOSNonCollinear(E, eig, eig_v, MatS(S), distribution)

(***************************************************************************)
(* C8.  PDOS called with no overlap and an explicitly non-collinear or     *)
(* spin-orbit spin configuration succeeds and returns an array of shape    *)
(* (4, width / 2, len(E)) computed with the identity overlap.              *)
(***************************************************************************)
C8_NoOverlapNonCollinearSucceeds ==
    (/\ pc = "done" /\ S = NoneM
     /\ spin \in {"non-collinear", "spin-orbit"}
     /\ NCols(eig_v) % 2 = 0) =>
        /\ ret.kind = "ok"
        /\ IsShape3(ret.val, 4, NCols(eig_v) \div 2, Len(E))
        /\ ret = PDOSNonCollinear(E, eig, eig_v,
                                  MatS(Identity(NCols(eig_v) \div 2)), distribution)


(***************************************************************************)
(* Reference quantities of the claims about velocity.                      *)
(***************************************************************************)
\* dH/dk_alpha (alpha = 1, 2, 3) of a stacked matrix: row nu is row 3 (nu - 1) + alpha
AxisBlock(M, alpha) == [nu \in 1..(NRows(M) \div 3) |-> M[3 * (nu - 1) + alpha]]

\* the states that are in one of the degenerate groups passed
InGroup(s) ==
    \E gi \in 1..Len(degenerate) :
        \E a \in 1..Len(degenerate[gi]) : degenerate[gi][a] = s

\* the velocity returned for state s: a 1-D state gets the ravelled row
VelocityOf(s) == IF ndim = 1 THEN ret.val ELSE ret.val[s]

OrthoStacked ==
    /\ op = "velocity" /\ pc = "done"
    /\ dSk = NoneM /\ NRows(dHk) = 3 * NCols(eig_v)

(***************************************************************************)
(* C4 as stated.  Orthogonal variant, stacked 3-direction dHk: for every   *)
(* state and every axis alpha, velocity returns 2 x Re<psi|dH/dk_alpha|psi> *)
(* times the unit constant.                                                *)
(***************************************************************************)
C4_Original_TwiceRealPart ==
    OrthoStacked =>
        /\ ret.kind = "ok"
        /\ \A s \in 1..NRows(eig_v) : \A alpha \in 1..3 :
              VelocityOf(s)[alpha] =
                 2 * Re(BraKet(eig_v[s], AxisBlock(dHk, alpha), eig_v[s]))
                   * _velocity_const

(***************************************************************************)
(* C4 amended.  Orthogonal variant, stacked 3-direction dHk: for every     *)
(* state outside the degenerate groups passed (every state when degenerate *)
(* is omitted) and every axis alpha, velocity returns                      *)
(* Re<psi|dH/dk_alpha|psi> times the unit constant, with no factor 2.      *)
(***************************************************************************)
C4_OrthoVelocityIsRealPart ==
    OrthoStacked =>
        /\ ret.kind = "ok"
        /\ \A s \in 1..NRows(eig_v) : \A alpha \in 1..3 :
              ~InGroup(s) =>
                 VelocityOf(s)[alpha] =
                    Re(BraKet(eig_v[s], AxisBlock(dHk, alpha), eig_v[s]))
                      * _velocity_const

C4_Witness ==
    /\ OrthoStacked /\ ret.kind = "ok"
    /\ NRows(eig_v) = 2 /\ NCols(eig_v) = 2 /\ eig_v[1] # eig_v[2]
    /\ degenerate = << >>
    /\ \A s \in 1..2 : \E alpha \in 1..3 : ret.val[s][alpha] # 0
    /\ ret.val[1] # ret.val[2]
    /\ \E a, b \in 1..2 : a # b /\ dHk[1][a] # CZero /\ dHk[1][b] # CZero

(***************************************************************************)
(* C5.  Single orbital, single state, orthogonal, stacked dHk = [a, b, c]: *)
(* velocity returns [a, b, c] x conj(psi) psi x the unit constant, with no *)
(* further factor.                                                         *)
(***************************************************************************)
SingleOrbital ==
    /\ OrthoStacked
    /\ NRows(eig_v) = 1 /\ NCols(eig_v) = 1

C5_SingleOrbitalVelocity ==
    SingleOrbital =>
        /\ ret.kind = "ok"
        /\ \A alpha \in 1..3 : Im(dHk[alpha][1]) = 0
        /\ VelocityOf(1) =
              [alpha \in 1..3 |->
                  Re(dHk[alpha][1]) * Re(CMul(CConj(eig_v[1][1]), eig_v[1][1]))
                    * _velocity_const]

C5_Witness ==
    /\ SingleOrbital /\ ret.kind = "ok"
    /\ Re(CMul(CConj(eig_v[1][1]), eig_v[1][1])) > 1
    /\ Cardinality({ Re(dHk[alpha][1]) : alpha \in 1..3 }) = 3
    /\ \A alpha \in 1..3 : VelocityOf(1)[alpha] # 0

(***************************************************************************)
(* C6.  velocity fails with SislError, and returns no velocities, for      *)
(* every dHk whose row count is neither the state width nor 3 x the state  *)
(* width.                                                                  *)
(***************************************************************************)
C6_UnsupportedShapeFails ==
    (/\ op = "velocity" /\ pc = "done"
     /\ NRows(dHk) \notin {NCols(eig_v), 3 * NCols(eig_v)}) =>
        ret.kind = "SislError"

(***************************************************************************)
(* C7.  The State/StateC velocity accessor fails with SislError whenever   *)
(* the parent exposes no dHk accessor, or no dSk accessor for a            *)
(* non-orthogonal parent; no other error escapes for such a parent.        *)
(***************************************************************************)
LacksDerivativeAccessor ==
    \/ ~parent.has_dHk
    \/ (~parent.orthogonal /\ ~parent.has_dSk)

C7_MissingAccessorIsSislError ==
    (op = "State.velocity" /\ pc = "done" /\ LacksDerivativeAccessor) =>
        ret.kind = "SislError"



\* ---- wavefunction ----

AllOk == \A i \in 1..Len(calls) : calls[i].kind = "ok"

\* the grid the session started from (an association made by an earlier call
\* never changes which geometry a later call uses)
StartGrid == [grid EXCEPT !.grid = grid0]

\* the grid after calling wavefunction with each array of vs in turn
RECURSIVE Replay(_, _)
Replay(vs, g) ==
    IF Len(vs) = 0 THEN g
    ELSE Replay(Tail(vs), wavefunction(Head(vs), g, geometry, k, spinor, spin).grid)

\* the rows of every array of the session, each as a 1-D array of its own
RECURSIVE RowsOf(_)
RowsOf(cs) ==
    IF Len(cs) = 0 THEN << >>
    ELSE [r \in 1..Len(cs[1].v.rows) |-> Vec1(cs[1].v.complex, cs[1].v.rows[r])]
           \o RowsOf(Tail(cs))

SameShape == \A i \in 1..Len(calls) :
                /\ calls[i].v.ndim = calls[1].v.ndim
                /\ Len(calls[i].v.rows) = Len(calls[1].v.rows)
                /\ Len(calls[i].v.rows[1]) = Len(calls[1].v.rows[1])

\* v1 + v2 + ... of the arrays of the session (elementwise, same shape)
TotalV ==
    [complex |-> \E i \in 1..Len(calls) : calls[i].v.complex,
     ndim    |-> calls[1].v.ndim,
     rows    |-> [r \in 1..Len(calls[1].v.rows) |->
                    [i \in 1..Len(calls[1].v.rows[1]) |->
                       CSum([c \in 1..Len(calls) |-> calls[c].v.rows[r][i]])]]]

\* C9: wavefunction adds to the amplitudes already present.  After calls that
\* all completed, the grid holds what one call with the sum of their coefficient
\* arrays would have left on the starting grid (arrays of one shape), and what
\* calling with every row of every 2-D array on its own, in turn, would have left.
C9_WavefunctionIsAdditive ==
    (op = "wavefunction" /\ Len(calls) >= 1 /\ AllOk) =>
        /\ SameShape =>
             grid.grid = wavefunction(TotalV, StartGrid, geometry, k, spinor, spin).grid.grid
        /\ grid.grid = Replay(RowsOf(calls), StartGrid).grid

\* two completed calls with different arrays, one of them 2-D, on a grid that
\* was not zero, each of which changed the grid
C9_Witness ==
    /\ op = "wavefunction" /\ Len(calls) = 2 /\ AllOk
    /\ calls[1].v.ndim = 1 /\ calls[2].v.ndim = 2
    /\ \E c \in Cells : grid0[c] # CZero
    /\ grid.grid # grid0
    /\ grid.grid # wavefunction(calls[1].v, StartGrid, geometry, k, spinor, spin).grid.grid
    /\ grid.grid # wavefunction(calls[2].v, StartGrid, geometry, k, spinor, spin).grid.grid

\* the checks that come before the k-point check pass: a geometry is found and
\* the projected coefficients are one per orbital
ProjectedLength ==
    LET len == Len(v.rows[1])
        n   == no(Geom(SessionGeometry))
    IN  IF (spin = None /\ len \div 2 = n) \/ (spin # None /\ spin \notin {"unpolarized", "polarized"})
        THEN (IF len % 2 = 0 THEN len \div 2 ELSE -1)
        ELSE len
ReachesKCheck ==
    /\ SessionGeometry # None
    /\ ProjectedLength = no(Geom(SessionGeometry))

KNorm2 == k[1] * k[1] + k[2] * k[2] + k[3] * k[3]

\* C10: when a call gets as far as the k-point check (a geometry is found, the
\* coefficients are one per orbital), it fails with NotImplementedError for a
\* k-point of norm above 1e-6 (KNorm2 above 100 in units of 1e-14); with the
\* zero k-point or k omitted no call fails with NotImplementedError, and the
\* call completes unless the coefficients are complex and the grid real.
C10_NonzeroKIsUnsupported ==
    (op = "wavefunction" /\ Len(calls) >= 1) =>
        /\ (k # NoneM /\ KNorm2 > 100 /\ ReachesKCheck) => ret.kind = "NotImplementedError"
        /\ (k = NoneM \/ k = <<0, 0, 0>>) =>
              /\ ret.kind # "NotImplementedError"
              /\ (ReachesKCheck /\ ~(v.complex /\ ~grid.complex)) => ret.kind = "ok"

\* a call with a k-point of norm above 1e-6, complex coefficients and a real
\* grid: the k-point check comes first
C10_Witness ==
    /\ op = "wavefunction" /\ Len(calls) >= 1
    /\ k # NoneM /\ KNorm2 > 100
    /\ v.complex /\ ~grid.complex
    /\ ret.kind = "NotImplementedError"
    /\ grid.grid = grid0

\* the call got past the k-point check: k omitted or of norm at most 1e-6
PassesKCheck == ReachesKCheck /\ (k = NoneM \/ KNorm2 <= 100)

\* C11: a call that reaches the type check (a geometry is found, the
\* coefficients are one per orbital, no k-point above 1e-6) fails with SislError
\* when the coefficients are complex and the grid is real, leaving the grid as
\* it was; with real coefficients it completes on a real and on a complex grid.
C11_ComplexOnRealGridIsTypeConflict ==
    (op = "wavefunction" /\ Len(calls) >= 1 /\ PassesKCheck) =>
        /\ (v.complex /\ ~grid.complex) => (ret.kind = "SislError" /\ grid = grid_pre)
        /\ ~v.complex => ret.kind = "ok"

\* complex coefficients met a real grid that already held amplitudes
C11_Witness ==
    /\ op = "wavefunction" /\ Len(calls) >= 1 /\ PassesKCheck
    /\ v.complex /\ ~grid.complex
    /\ ret.kind = "SislError"
    /\ \E c \in Cells : grid.grid[c] # CZero

\* the length of the coefficient vector of the last call (after the sum over
\* the rows of a 2-D array) and the orbital count of the geometry
CoeffLen     == Len(SumRows(v))
OrbitalCount == no(Geom(SessionGeometry))
NCSpin       == spin \in {"non-collinear", "spin-orbit"}

\* the entries 2 i + spinor (i = 0, 1, ...) of the coefficient vector, as an
\* array of its own
Selected ==
    Vec1(v.complex, [i \in 1..OrbitalCount |-> SumRows(v)[2 * (i - 1) + spinor + 1]])

\* C12: with a usable geometry, a call completes only if the coefficient vector
\* has one entry per orbital (spin omitted or collinear) or two per orbital (spin
\* omitted or non-collinear); with two per orbital the grid receives what the
\* entries 2 i + spinor alone would have given; every other length, and two per
\* orbital with a collinear spin, fails and leaves the grid as it was.
C12_CoefficientLength ==
    (op = "wavefunction" /\ Len(calls) >= 1 /\ SessionGeometry # None) =>
        /\ ret.kind = "ok" =>
              \/ CoeffLen = OrbitalCount /\ ~NCSpin
              \/ CoeffLen = 2 * OrbitalCount /\ (spin = None \/ NCSpin)
        /\ (ret.kind = "ok" /\ CoeffLen = 2 * OrbitalCount) =>
              grid.grid = wavefunction(Selected, grid_pre, geometry, k, spinor,
                                       "polarized").grid.grid
        /\ (\/ CoeffLen \notin {OrbitalCount, 2 * OrbitalCount}
            \/ CoeffLen = 2 * OrbitalCount /\ spin \in {"unpolarized", "polarized"}) =>
              (ret.kind \in {"ValueError", "SislError"} /\ grid = grid_pre)

\* a doubled vector was projected on its second spinor component and changed
\* the grid
C12_Witness ==
    /\ op = "wavefunction" /\ Len(calls) >= 1 /\ SessionGeometry # None
    /\ ret.kind = "ok" /\ CoeffLen = 2 * OrbitalCount /\ OrbitalCount >= 2
    /\ spinor = 1
    /\ grid.grid # grid_pre.grid

\* the geometry, the atom images and the projected coefficients of the last call
CallGeom   == Geom(SessionGeometry)
CallImages == within_inf(CallGeom, GeometryMaxR(CallGeom))
Projected  == IF CoeffLen = 2 * OrbitalCount THEN Selected.rows[1] ELSE SumRows(v)

RECURSIVE SumFn(_, _)
SumFn(f, set) ==
    IF set = {} THEN CZero
    ELSE LET x == CHOOSE y \in set : TRUE
         IN  CAdd(f[x], SumFn(f, set \ {x}))

\* the orbitals <<image, orbital index>> whose own cutoff sphere holds grid
\* point c
Reaching(c) ==
    { io \in CallImages \X (1..4) :
        /\ io[2] <= Len(CallGeom.atom[io[1].ia])
        /\ CallGeom.atom[io[1].ia][io[2]].R > 0
        /\ Dist2(c, ImageXYZ(CallGeom, io[1].ia, io[1].isc))
             <= CallGeom.atom[io[1].ia][io[2]].R * CallGeom.atom[io[1].ia][io[2]].R }

\* what the orbitals that reach c deposit there: psi at the distance times
\* the coefficient of the orbital
DepositOf(c, ios) ==
    SumFn([io \in ios |->
             CScale(psi_spher(CallGeom.atom[io[1].ia][io[2]],
                              Dist2(c, ImageXYZ(CallGeom, io[1].ia, io[1].isc))),
                    Projected[a2o(CallGeom, io[1].ia) + io[2]])],
          ios)

Deposit(c) == DepositOf(c, Reaching(c))

\* the orbitals that reach c and whose image is written with an index box
\* that holds c, and what they deposit
ReachingInBox(c) ==
    { io \in Reaching(c) :
        /\ Writes(CallGeom, io[1])
        /\ \A a \in Axes : /\ Box(CallGeom, io[1]).lo[a] <= c[a]
                            /\ c[a] < Box(CallGeom, io[1]).hi[a] }

Deposited(c) == DepositOf(c, ReachingInBox(c))

\* C13: after a completed call a grid point that lies outside the cutoff sphere
\* of every orbital of every atom image holds its value from before the call,
\* and every grid point has gained exactly what orbitals whose own cutoff
\* sphere holds it deposit there: those among them whose image is written
\* with an index box that holds the point.
C13_OnlyWithinCutoff ==
    (op = "wavefunction" /\ Len(calls) >= 1 /\ ret.kind = "ok") =>
        \A c \in Cells :
            /\ Reaching(c) = {} => grid.grid[c] = grid_pre.grid[c]
            /\ grid.grid[c] = CAdd(grid_pre.grid[c], Deposited(c))

\* one grid point is reached by the wider orbital of an atom and not by the
\* narrower one, one by none, and the amplitudes there were not zero before
C13_Witness ==
    /\ op = "wavefunction" /\ Len(calls) >= 1 /\ ret.kind = "ok"
    /\ \E c \in Cells : Reaching(c) = {} /\ grid_pre.grid[c] # CZero
    /\ \E c \in Cells : \E im \in CallImages :
          /\ <<im, 1>> \in Reaching(c) /\ <<im, 2>> \notin Reaching(c)
          /\ Len(CallGeom.atom[im.ia]) >= 2 /\ CallGeom.atom[im.ia][2].R > 0
          /\ grid.grid[c] # grid_pre.grid[c]

(***************************************************************************)
(* Reference quantities of the claims about the non-orthogonal velocity.   *)
(***************************************************************************)
NonOrthoStacked ==
    /\ op = "velocity" /\ pc = "done"
    /\ dSk # NoneM /\ NRows(dHk) = 3 * NCols(eig_v)

\* Re<psi| dH/dk_alpha |psi> - e x Re<psi| dS/dk_alpha |psi>
NonOrthoExpect(psi, e, alpha) ==
    Re(BraKet(psi, AxisBlock(dHk, alpha), psi))
      - e * Re(BraKet(psi, AxisBlock(dSk, alpha), psi))

(***************************************************************************)
(* C14 as stated.  Non-orthogonal variant, stacked 3-direction dHk and     *)
(* dSk: for every state i and every axis alpha, velocity returns           *)
(* Re<psi_i|(dH/dk_alpha - energy[i] dS/dk_alpha)|psi_i> times the unit    *)
(* constant.                                                               *)
(***************************************************************************)
C14_Original_EveryState ==
    NonOrthoStacked =>
        /\ ret.kind = "ok"
        /\ \A s \in 1..NRows(eig_v) : \A alpha \in 1..3 :
              VelocityOf(s)[alpha] =
                 NonOrthoExpect(eig_v[s], eig[s], alpha) * _velocity_const

(***************************************************************************)
(* C14 amended.  Non-orthogonal variant, stacked 3-direction dHk and dSk:  *)
(* for every state i outside the degenerate groups passed (every state     *)
(* when degenerate is omitted) and every axis alpha, velocity returns      *)
(* Re<psi_i|(dH/dk_alpha - energy[i] dS/dk_alpha)|psi_i> times the unit    *)
(* constant, with the state's own energy.                                  *)
(***************************************************************************)
C14_NonOrthoVelocityOutsideGroups ==
    NonOrthoStacked =>
        /\ ret.kind = "ok"
        /\ \A s \in 1..NRows(eig_v) : \A alpha \in 1..3 :
              ~InGroup(s) =>
                 VelocityOf(s)[alpha] =
                    NonOrthoExpect(eig_v[s], eig[s], alpha) * _velocity_const

C14_Witness ==
    /\ NonOrthoStacked /\ ret.kind = "ok"
    /\ NRows(eig_v) = 2 /\ NCols(eig_v) = 2
    /\ eig[1] # eig[2] /\ degenerate = << >>
    /\ \E alpha \in 1..3 :
          /\ Re(BraKet(eig_v[2], AxisBlock(dSk, alpha), eig_v[2])) # 0
          /\ ret.val[2][alpha] # 0
          /\ ret.val[2][alpha] #
                Re(BraKet(eig_v[2], AxisBlock(dHk, alpha), eig_v[2])) * _velocity_const

\* the velocity vector of the vector psi with the energy e, in the variant
\* of the call (dSk absent: orthogonal)
RefVelocity(psi, e) ==
    [alpha \in 1..3 |->
        (IF dSk = NoneM
         THEN Re(BraKet(psi, AxisBlock(dHk, alpha), psi))
         ELSE NonOrthoExpect(psi, e, alpha)) * _velocity_const]

StackedDone ==
    /\ op = "velocity" /\ pc = "done"
    /\ NRows(dHk) = 3 * NCols(eig_v)

PathOrbitalCount ==
    IF PathIsCollinear THEN NCols(eig_v) ELSE NCols(eig_v) \div 2

(***************************************************************************)
(* C16.  PDOS called with an explicit overlap whose column count is        *)
(* neither the orbital count of the spin path taken nor twice that count   *)
(* fails with an error and returns no array.                               *)
(***************************************************************************)
C16_MisshapenOverlapFails ==
    (/\ op = "PDOS" /\ pc = "done" /\ S # NoneM
     /\ NCols(S) \notin {PathOrbitalCount, 2 * PathOrbitalCount}) =>
        /\ ret.kind \notin {"ok", "none"}
        /\ ret.val = << >>

\* states of width 4 on the non-collinear path (2 orbitals) with an overlap
\* of 3 columns
C16_Witness ==
    /\ op = "PDOS" /\ pc = "done"
    /\ NCols(eig_v) = 4 /\ spin = "non-collinear"
    /\ S # NoneM /\ NCols(S) = 3
    /\ ret = Err("ValueError")

\* the spin-diagonal overlap between orbitals a and b: the entries of the
\* spin-up rows and columns of a full-width overlap, the overlap itself when
\* it has one row per orbital
SpinDiagonal(a, b) ==
    IF NCols(S) = NCols(eig_v) THEN S[2 * a - 1][2 * b - 1] ELSE S[a][b]

\* (S psi_i) on orbital nu for the spin component sigma (1 up, 2 down)
SPsi(i, nu, sigma) ==
    CSum([b \in 1..(NCols(eig_v) \div 2) |->
            CMul(SpinDiagonal(nu, b), eig_v[i][2 * (b - 1) + sigma])])

\* the overlap-weighted density Re(conj(psi) (S psi)) of one spin component
SpinDensity(i, nu, sigma) ==
    Re(CMul(CConj(eig_v[i][2 * (nu - 1) + sigma]), SPsi(i, nu, sigma)))

\* 2 conj(psi_down) (S psi)_up
Mixed(i, nu) == CMul(CScale(2, CConj(eig_v[i][2 * nu])), SPsi(i, nu, 1))

\* sum over the states of w(i) D(E[j] - eig[i])
Weighted(w(_), j) ==
    SumSeq([i \in 1..Len(eig) |-> w(i) * Dist(distribution, E[j] - eig[i])])

SpinMomentArgsOk ==
    /\ NCols(eig_v) % 2 = 0
    /\ S # NoneM => NCols(S) \in {NCols(eig_v), NCols(eig_v) \div 2}

\* the overlap between the entries a and b of a spinor row: the identity
\* when S is omitted, S itself when it has the width of the rows, and
\* otherwise S between the orbitals for equal spin components
FullOverlap(a, b) ==
    IF S = NoneM THEN (IF a = b THEN C(1,0) ELSE CZero)
    ELSE IF NCols(S) = NCols(eig_v) THEN S[a][b]
    ELSE IF a % 2 = b % 2 THEN S[(a + 1) \div 2][(b + 1) \div 2] ELSE CZero

\* <psi| S |psi>
FullNorm(psi) ==
    CSum([a \in 1..Len(psi) |->
        CMul(CConj(psi[a]),
             CSum([b \in 1..Len(psi) |-> CMul(FullOverlap(a, b), psi[b])]))])

\* state i has no spin-down amplitude
ZeroDown(i) == \A o \in 1..(NCols(eig_v) \div 2) : eig_v[i][2 * o] = CZero

\* the moment returned for state i: a 1-D state gets the ravelled row
MomentOf(i) == IF ndim = 1 THEN ret.val ELSE ret.val[i]

(***************************************************************************)
(* C18.  For every state whose spin-down amplitude is zero on every        *)
(* orbital, spin_moment returns the z component <psi|S|psi> (the full      *)
(* overlap-weighted norm, a real number) and x and y components zero.      *)
(***************************************************************************)
C18_ZeroDownIsAllZ ==
    (op = "spin_moment" /\ pc = "done" /\ SpinMomentArgsOk) =>
        /\ ret.kind = "ok"
        /\ \A i \in 1..NRows(eig_v) :
              ZeroDown(i) =>
                 /\ MomentOf(i) = <<0, 0, Re(FullNorm(eig_v[i]))>>
                 /\ Im(FullNorm(eig_v[i])) = 0

\* a two-orbital state without spin-down amplitude, with an overlap that
\* couples the orbitals, next to a state that has spin-down amplitude
C18_Witness ==
    /\ op = "spin_moment" /\ pc = "done" /\ ret.kind = "ok"
    /\ NRows(eig_v) = 2 /\ NCols(eig_v) = 4
    /\ ZeroDown(1) /\ ~ZeroDown(2)
    /\ S # NoneM /\ NCols(S) = 2 /\ S[1][2] # CZero
    /\ eig_v[1][1] # CZero /\ eig_v[1][3] # CZero
    /\ ret.val[1][3] > 0
    /\ ret.val[2][1] # 0

\* an array of 3 real numbers
IsMoment(x) == Len(x) = 3 /\ \A c \in 1..3 : x[c] \in Int

(***************************************************************************)
(* C19.  spin_moment returns one 3-vector (x, y, z) per state row: an      *)
(* array of shape (number of states, 3), or one vector of length 3 for a   *)
(* 1-D state.  Passed an overlap of the width of the states it returns     *)
(* what it returns for the block of every other row and column of that     *)
(* overlap.                                                                *)
(***************************************************************************)
C19_ShapeAndDownSampling ==
    (op = "spin_moment" /\ pc = "done") =>
        /\ SpinMomentArgsOk =>
              /\ ret.kind = "ok"
              /\ IF ndim = 1 THEN IsMoment(ret.val)
                 ELSE /\ Len(ret.val) = NRows(eig_v)
                      /\ \A i \in 1..NRows(eig_v) : IsMoment(ret.val[i])
        /\ (S # NoneM /\ NCols(S) = NCols(eig_v)) =>
              ret = spin_moment(eig_v, ndim, Subsample(S))

\* two states of two orbitals with a full-width overlap whose block is not
\* the identity: the moments differ from those without overlap
C19_Witness ==
    /\ op = "spin_moment" /\ pc = "done" /\ ret.kind = "ok"
    /\ NRows(eig_v) = 2 /\ NCols(eig_v) = 4 /\ ndim = 2
    /\ S # NoneM /\ NCols(S) = 4
    /\ Subsample(S) # Identity(2)
    /\ ret # spin_moment(eig_v, ndim, NoneM)
    /\ ret.val[1] # ret.val[2]

\* the eigenvalue sequence eig reordered by the permutation p
Permuted(p) == [i \in 1..Len(eig) |-> eig[p[i]]]

(***************************************************************************)
(* C20.  DOS(E, eig, D) is unchanged by every permutation of the           *)
(* eigenvalue sequence eig: the call with any reordering of eig returns    *)
(* what the call with eig returned.                                        *)
(***************************************************************************)
C20_DOSIsPermutationInvariant ==
    (op = "DOS" /\ pc = "done") =>
        \A p \in Permutations(1..Len(eig)) :
            DOS(E, Permuted(p), distribution) = ret

\* two different eigenvalues, in descending order, whose distributions on
\* the query grid differ
C20_Witness ==
    /\ op = "DOS" /\ pc = "done" /\ ret.kind = "ok"
    /\ Len(eig) = 2 /\ eig[1] > eig[2] /\ Len(E) = 2
    /\ DistArray(distribution, E, eig[1]) # DistArray(distribution, E, eig[2])
    /\ \E j \in 1..2 : ret.val[j] > 0

(***************************************************************************)
(* Reference quantities of the claim about State.Sk.                       *)
(***************************************************************************)
\* the parent is a non-orthogonal operator source
NonOrthogonalSource == is_SparseOrbitalBZSpin /\ ~parent.orthogonal

\* vectors an overlap object is applied to
ProbeVectors == { <<C(1,0)>>, <<C(0,1), C(3,0)>>, <<C(1,1), C(0,0), C(-2,1)>> }

(***************************************************************************)
(* C21.  Sk() returns the identity stand-in, whose dot returns its         *)
(* argument unchanged, whenever the parent is orthogonal or is not an      *)
(* operator source; the stand-in's shape is the state width when no spin   *)
(* or a collinear spin is passed, and half the state width for a           *)
(* non-collinear or spin-orbit spin.  Only a non-orthogonal operator       *)
(* source yields the parent's overlap, asked for at the stored k (default  *)
(* (0,0,0)), the stored gauge and the format passed.                       *)
(***************************************************************************)
C21_SkIsIdentityUnlessNonOrthogonal ==
    (op = "State.Sk" /\ pc = "done") =>
        /\ ret.kind = "ok"
        /\ ret.val.fake = ~NonOrthogonalSource
        /\ ~NonOrthogonalSource =>
              /\ \A x \in ProbeVectors : SkDot(ret.val, x) = x
              /\ ret.val.shape =
                    IF spin \in {"non-collinear", "spin-orbit"}
                    THEN <<NCols(eig_v) \div 2, NCols(eig_v) \div 2>>
                    ELSE <<NCols(eig_v), NCols(eig_v)>>
        /\ NonOrthogonalSource =>
              /\ ret.val.opt.k = IF info.k = NoneM THEN <<0, 0, 0>> ELSE info.k
              /\ ret.val.opt.gauge = info.gauge
              /\ ret.val.opt.format = format

\* an orthogonal operator source asked with a spin-orbit spin for states of
\* width 4: the stand-in of shape (2, 2)
C21_Witness ==
    /\ op = "State.Sk" /\ pc = "done" /\ ret.kind = "ok"
    /\ is_SparseOrbitalBZSpin /\ parent.orthogonal
    /\ spin = "spin-orbit" /\ NCols(eig_v) = 4
    /\ info.k # NoneM /\ info.k # <<0, 0, 0>>
    /\ ret.val.fake /\ ret.val.shape = <<2, 2>>

\* the record of the last call
LastCall == calls[Len(calls)]

\* the images that reached the write of their box in the last call
WrittenImages == { b.im : b \in LastCall.boxes }

\* the first orbitals of the groups of an atom without wave-function
ZeroGroups(atom) ==
    { j \in 1..Len(atom) : atom[j].R <= 0 /\ (j = 1 \/ atom[j - 1].R # atom[j].R) }

\* the call passes every precondition
PassesPreconditions == PassesKCheck /\ ~(v.complex /\ ~grid.complex)

(***************************************************************************)
(* C22.  In wavefunction an atom whose maximal radius is zero or negative  *)
(* and an orbital group whose radius is zero or negative are skipped with  *)
(* a warning, never with an error: a call that passes the preconditions    *)
(* completes, warns once for every image of such an atom and for every     *)
(* such group of an atom it writes, writes nothing for such an atom, and   *)
(* where it has skipped something the grid has gained what the orbitals    *)
(* with a positive radius deposit in the index boxes written.              *)
(***************************************************************************)
C22_ZeroRadiusIsSkippedWithWarning ==
    (op = "wavefunction" /\ Len(calls) >= 1 /\ PassesPreconditions) =>
        /\ ret.kind = "ok"
        /\ \A im \in CallImages :
              LET atom == CallGeom.atom[im.ia]
              IN  /\ maxR(atom) <= 0 =>
                        /\ [what |-> "atom", im |-> im, j |-> 0] \in LastCall.warn
                        /\ im \notin WrittenImages
                  /\ im \in WrittenImages =>
                        \A j \in ZeroGroups(atom) :
                            [what |-> "orbital", im |-> im, j |-> j] \in LastCall.warn
        /\ \A w \in LastCall.warn :
              /\ w.what = "atom" => maxR(CallGeom.atom[w.im.ia]) <= 0
              /\ w.what = "orbital" => CallGeom.atom[w.im.ia][w.j].R <= 0
        /\ (\E w \in LastCall.warn : w.what # "geometry") =>
              \A c \in Cells : grid.grid[c] = CAdd(grid_pre.grid[c], Deposited(c))

\* a geometry with an atom of negative radius and an atom with a zero-radius
\* group between two orbitals that are projected: both warnings, and the
\* grid has changed
C22_Witness ==
    /\ op = "wavefunction" /\ Len(calls) >= 1 /\ PassesPreconditions
    /\ ret.kind = "ok"
    /\ \E w \in LastCall.warn : w.what = "atom" /\ maxR(CallGeom.atom[w.im.ia]) < 0
    /\ \E w \in LastCall.warn :
          /\ w.what = "orbital" /\ w.j = 2
          /\ CallGeom.atom[w.im.ia][3].R > 0
    /\ grid.grid # grid_pre.grid

OrthoSingle ==
    /\ op = "velocity" /\ pc = "done"
    /\ dSk = NoneM /\ NRows(dHk) = NCols(eig_v) /\ NCols(dHk) = NCols(eig_v)

C24_SingleDirectionIgnoresDegenerate ==
    OrthoSingle =>
        /\ ret = Ok([s \in 1..NRows(eig_v) |->
                       Re(BraKet(eig_v[s], dHk, eig_v[s])) * _velocity_const])
        /\ velocity(eig_v, ndim, dHk, eig, dSk, << >>) = {ret}

\* two states of one energy passed as a degenerate group, a dHk that couples
\* them, and one nonzero number per state
C24_Witness ==
    /\ OrthoSingle
    /\ degenerate = << <<1, 2>> >>
    /\ eig_v[1] # eig_v[2]
    /\ BraKet(eig_v[1], dHk, eig_v[2]) # CZero
    /\ ret.kind = "ok" /\ Len(ret.val) = 2
    /\ ret.val[1] # ret.val[2]
    /\ \E s \in 1..2 : \E nu \in 1..2 : Im(eig_v[s][nu]) # 0

(***************************************************************************)
(* C25.  A call of wavefunction that fails on a precondition (no usable    *)
(* geometry, coefficient length, nonzero k, complex coefficients on a real *)
(* grid) leaves the grid as it was before the call: the amplitude array,   *)
(* its dtype and the associated geometry.                                  *)
(***************************************************************************)
PreconditionFailures == {"SislError", "ValueError", "NotImplementedError"}

FailedCall ==
    /\ op = "wavefunction" /\ Len(calls) > 0
    /\ ret.kind \in PreconditionFailures

C25_FailureLeavesGridUntouched ==
    /\ (op = "wavefunction" /\ Len(calls) > 0)
          => ret.kind \in PreconditionFailures \cup {"ok"}
    /\ FailedCall =>
          /\ grid.grid = grid_pre.grid
          /\ grid.geometry = grid_pre.geometry
          /\ grid.complex = grid_pre.complex
          /\ pc = "done"

\* the last precondition fails (complex coefficients of the right length on
\* a real grid) for a grid that holds amplitudes and has no geometry, with a
\* geometry passed whose atom lies in the grid cell: a call that went on
\* would have attached it
C25_Witness ==
    /\ FailedCall
    /\ ret.kind = "SislError" /\ v.complex /\ ~grid.complex
    /\ geometry # None /\ grid_pre.geometry = None
    /\ within_inf(Geom(geometry), 0) # {}
    /\ CoeffLen = OrbitalCount
    /\ \E c \in Cells : grid_pre.grid[c] # CZero

(***************************************************************************)
(* C26.  Every write of wavefunction to the grid uses an index box with    *)
(* 0 <= lower < upper <= grid shape on each axis: an image whose box lies  *)
(* outside the grid is skipped without a write, a box that straddles the   *)
(* boundary is truncated to the grid, and no amplitude changes outside the *)
(* boxes written.                                                          *)
(***************************************************************************)
CompletedCall == op = "wavefunction" /\ Len(calls) > 0 /\ ret.kind = "ok"

InBox(c, box) == \A a \in Axes : box.lo[a] <= c[a] /\ c[a] < box.hi[a]

C26_WritesStayInsideGrid ==
    CompletedCall =>
        /\ \A b \in LastCall.boxes : \A a \in Axes :
              /\ 0 <= b.box.lo[a] /\ b.box.lo[a] < b.box.hi[a]
              /\ b.box.hi[a] <= GridShape[a]
              /\ b.box.lo[a] = Max(idxm(CallGeom, b.im)[a], 0)
              /\ b.box.hi[a] = Min(idxM(CallGeom, b.im)[a], GridShape[a])
        /\ \A im \in CallImages :
              OutsideGrid(CallGeom, im) => im \notin WrittenImages
        /\ \A c \in Cells :
              grid.grid[c] # grid_pre.grid[c] =>
                  \E b \in LastCall.boxes : InBox(c, b.box)

\* one call with an image whose box lies outside the grid, an image whose
\* box is cut at the lower side, one whose box is cut at the upper side,
\* and a changed amplitude
C26_Witness ==
    /\ CompletedCall
    /\ \E im \in CallImages :
          maxR(CallGeom.atom[im.ia]) > 0 /\ OutsideGrid(CallGeom, im)
    /\ \E im \in WrittenImages : \E a \in Axes : idxm(CallGeom, im)[a] < 0
    /\ \E im \in WrittenImages : \E a \in Axes :
          idxM(CallGeom, im)[a] > GridShape[a]
    /\ grid.grid # grid_pre.grid

(***************************************************************************)
(* C27.  In wavefunction every orbital with a positive radius is           *)
(* multiplied by the coefficient at index a2o(atom) + (its position within *)
(* the atom), whatever the pattern of zero-radius groups on the atom: a    *)
(* skipped group advances the coefficient index by its size.  Checked on   *)
(* the atoms of the call, and with the coefficients of the call on every   *)
(* atom of up to MaxPattern orbitals with radii from PatternRadii placed   *)
(* at every first orbital index the coefficients allow; the distances are  *)
(* those within the atom's maximal radius, the only ones the loop is run   *)
(* for (idx2spherical keeps the points with r <= R).                       *)
(***************************************************************************)
MaxPattern   == 3
PatternRadii == {0, Unit}

\* atoms whose orbital at position j has amplitude j
PatternAtoms(n) ==
    { [j \in 1..n |-> Orb(rs[j], j)] : rs \in [1..n -> PatternRadii] }

\* the sum of psi * coefficient over the orbitals of the atom that have a
\* positive radius and reach the squared distance r2, orbital j (1-based)
\* with the coefficient first + j (1-based: first + j - 1 of the code)
Aligned(atom, first, vv, r2) ==
    SumFn([j \in { x \in 1..Len(atom) : atom[x].R > 0 /\ r2 <= atom[x].R * atom[x].R } |->
             CScale(psi_spher(atom[j], r2), vv[first + j])],
          { x \in 1..Len(atom) : atom[x].R > 0 /\ r2 <= atom[x].R * atom[x].R })

C27_CoefficientIndexStaysAligned ==
    CompletedCall =>
        /\ \A im \in CallImages : \A c \in Cells :
              LET atom == CallGeom.atom[im.ia]
                  r2   == Dist2(c, ImageXYZ(CallGeom, im.ia, im.isc))
              IN  r2 <= maxR(atom) * maxR(atom) =>
                    OrbitalLoop(atom, 1, a2o(CallGeom, im.ia), Projected, r2, maxR(atom))
                      = Aligned(atom, a2o(CallGeom, im.ia), Projected, r2)
        /\ \A n \in 1..Min(MaxPattern, OrbitalCount) :
              \A atom \in PatternAtoms(n) : \A first \in 0..(OrbitalCount - n) :
                  \A r2 \in {0, 1} :
                      OrbitalLoop(atom, 1, first, Projected, r2, maxR(atom))
                        = Aligned(atom, first, Projected, r2)

\* the atom of the call has a zero-radius group between two orbitals with a
\* radius, the coefficient of the orbital behind the group differs from the
\* one a stalled index would pick, and the orbital reaches a grid point
\* whose amplitude has changed
C27_Witness ==
    /\ CompletedCall
    /\ \E im \in WrittenImages : \E c \in Cells :
          LET atom == CallGeom.atom[im.ia]
              io   == a2o(CallGeom, im.ia)
          IN  /\ Len(atom) = 3
              /\ atom[1].R > 0 /\ atom[2].R <= 0 /\ atom[3].R > 0
              /\ <<im, 3>> \in Reaching(c)
              /\ Projected[io + 3] # Projected[io + 2]
              /\ Projected[io + 3] # CZero
              /\ grid.grid[c] # grid_pre.grid[c]

(***************************************************************************)
(* C28.  When velocity is given degenerate groups and returns, the         *)
(* velocity of every state that belongs to no group is the one the same    *)
(* call returns without groups: only the rows of the groups are written    *)
(* again.                                                                  *)
(***************************************************************************)
\* the results of the call with degenerate=None (one result: no group, no tie)
WithoutGroups == velocity(eig_v, ndim, dHk, eig, dSk, << >>)

GroupsSupplied ==
    /\ op = "velocity" /\ pc = "done"
    /\ degenerate # << >> /\ ret.kind = "ok"

C29_BoxHoldsEveryContributingPoint ==
    CompletedCall =>
        /\ \A im \in CallImages : \A c \in Cells :
              LET R == maxR(CallGeom.atom[im.ia])
              IN  (R > 0 /\ Dist2(c, ImageXYZ(CallGeom, im.ia, im.isc)) <= R * R) =>
                     /\ im \in WrittenImages
                     /\ \E b \in LastCall.boxes : b.im = im /\ InBox(c, b.box)
        /\ \A c \in Cells : grid.grid[c] = CAdd(grid_pre.grid[c], Deposit(c))

\* the failing input: the image one cell up of an atom that lies one length
\* unit above the bottom of a cell periodic along z, its radius one grid
\* step more; the grid point of the top layer straight below the image is
\* at the radius, the lower index of the box is the grid's shape, and the
\* point keeps its value though the orbital's amplitude there is not zero
C29_ExcludedPoint ==
    /\ CompletedCall /\ SessionGeometry = "column"
    /\ LET im == [ia |-> 1, isc |-> [a \in Axes |-> IF a = 3 THEN 1 ELSE 0]]
           c  == <<0, 0, GridShape[3] - 1>>
       IN  /\ im \in CallImages
           /\ Dist2(c, ImageXYZ(CallGeom, 1, im.isc)) = maxR(CallGeom.atom[1]) * maxR(CallGeom.atom[1])
           /\ idxm(CallGeom, im)[3] = GridShape[3]
           /\ im \notin WrittenImages
           /\ Deposit(c) # Deposited(c)
           /\ grid.grid[c] = CAdd(grid_pre.grid[c], Deposited(c))

(***************************************************************************)
(* C30.  read_dynamical_matrix calls the readers named in order (without   *)
(* the argument: got, then FC) strictly in that order; the first reader    *)
(* that yields a matrix ends the call, no later reader is called, and the  *)
(* matrix returned is that reader's matrix with the unit scaling applied   *)
(* once; when every reader yields nothing every reader has been called and *)
(* None is returned.  (The file holds a geometry and every name has a      *)
(* reader: otherwise the call raises before, or instead of, a reader.)     *)
(***************************************************************************)
ReaderNames ==
    [i \in 1..Len(ResolvedOrder(order)) |-> Lower(ResolvedOrder(order)[i])]

\* reader i of the order exists and yields a matrix
Yields(i) == ReaderNames[i] \in Readers /\ Reader(ReaderNames[i], file).some

\* the first i readers of the order exist
Callable(i) == \A j \in 1..i : ReaderNames[j] \in Readers

ReadDone == op = "read_dynamical_matrix" /\ pc = "done" /\ file.geometry

C30_FirstReaderInOrderWins ==
    op = "read_dynamical_matrix" =>
        /\ ~order.given => ReaderNames = <<"got", "fc">>
        /\ Len(tried) <= Len(ReaderNames)
        /\ \A i \in 1..Len(tried) :
              /\ tried[i] = ReaderNames[i]
              /\ i < Len(tried) => ~Yields(i)
        /\ ReadDone =>
              /\ \A i \in 1..Len(ReaderNames) :
                    (Yields(i) /\ Callable(i) /\ \A j \in 1..(i - 1) : ~Yields(j)) =>
                        /\ Len(tried) = i
                        /\ ret.kind = "ok" /\ ret.val.some
                        /\ Len(ret.val.data) = Len(Reader(ReaderNames[i], file).data)
                        /\ \A e \in 1..Len(ret.val.data) :
                              ret.val.data[e] = Reader(ReaderNames[i], file).data[e] * ScaleSq
              /\ (Callable(Len(ReaderNames)) /\ \A i \in 1..Len(ReaderNames) : ~Yields(i)) =>
                    /\ tried = ReaderNames
                    /\ ret.kind = "ok" /\ ~ret.val.some
              /\ (ret.kind = "ok" /\ ret.val.some) => Yields(Len(tried))
              /\ (ret.kind = "ok" /\ ~ret.val.some) =>
                    \A i \in 1..Len(ReaderNames) : ~Yields(i)

\* no order is passed, the output file has no dynamical matrix and the
\* force-constant file fits the geometry: got was called, then FC, and the
\* matrix returned is FC's, mass-weighted and scaled once
C30_Witness ==
    /\ ReadDone /\ ~order.given
    /\ ~file.dyn.some /\ file.fc.exists /\ file.fc.no = GeomNo
    /\ tried = <<"got", "fc">>
    /\ ret.kind = "ok" /\ ret.val.some
    /\ ret.val.data = <<(8 \div Mass) * ScaleSq, -ScaleSq>>

=============================================================================
